---- MODULE Spec2Model ----
(***************************************************************************)
(* Escrow settlement engine of the DezenMart logistics program             *)
(* (src/src/main.rs): trades, purchases, the token legs of buy / confirm / *)
(* dispute / cancel / fee withdrawal, and the account constraints that     *)
(* guard each instruction.                                                 *)
(*                                                                         *)
(* Every instruction handler is an operator from the accounts it is given  *)
(* to a result [res, st, xfers]; the handler body is transcribed in the    *)
(* order of the source (flags first, then transfers, where the source does *)
(* so).  Dispatch is the program entry: an Err result discards every       *)
(* account change of the instruction.                                      *)
(***************************************************************************)
EXTENDS Integers, Sequences, FiniteSets, TLC

\* ---------------------------------------------------------------- constants
ESCROW_FEE_PERCENT == 250
BASIS_POINTS == 10000
MAX_LOGISTICS_PROVIDERS == 10
MAX_PURCHASE_IDS == 100

\* the bump hard-wired into the signer seeds of withdraw_escrow_fees
WITHDRAW_BUMP == 254

\* ------------------------------------------------------------------- bounds
MaxTrades == 1
MaxPurchases == 2
\* trades created in the several-trades specification
MaxMultiTrades == 2
\* bits of the model's u64
WordBits == 20
\* purchases of the specification that fills the purchase id lists
MaxCapPurchases == 102

\* --------------------------------------------------------------- identities
Admin == "admin"
S1 == "S1"
B1 == "B1"
P1 == "P1"
Escrow == "escrow"
Mint == "mint"

Frozen == "frozen"

Identities == {Admin, S1, B1, P1}
\* one token account per identity (named after its owner), the escrow PDA, and
\* a frozen account of the same mint, which the ledger refuses to credit
TokenAccounts == Identities \cup {Escrow, Frozen}

\* inputs the instructions are called with
ProductCosts == {1010}
Quantities == {0, 1, 2}
TotalQuantities == {0, 2}
Sellers == {S1}
AdminCallers == {Admin, B1}
Callers == {B1, P1}
BuyCallers == {B1, P1}
RegisterCallers == {B1}
DestAccounts == {B1, S1, P1, Frozen}
\* the three destination accounts handed to resolve_dispute; the refund leg
\* reads only the first and the payout legs only the other two, so the first
\* two are drawn equal
ResolveAccounts == {<<x, x, z>> : x \in DestAccounts, z \in DestAccounts}
\* inputs of the wide-arithmetic specification
WideProductCosts == {1, 39, 40, 41, 1000}
WideLogisticsCosts == {0, 7, 100, 150}
WideQuantities == {1, 2, 3}
\* inputs of the overflow specification, near the top of the u64 range: a unit
\* cost whose fee product fits for one unit and not for two, and half the range
OverflowProductCosts == {(2^WordBits) \div 500 + 1, (2^WordBits) \div 2}
OverflowLists ==
    { <<<<P1>>, <<100>>>>,
      <<<<P1>>, <<(2^WordBits) \div 2>>>> }
OverflowTotalQuantities == {2}
OverflowQuantities == {1, 2}
\* keys buy_trade is called with: a trade is looked up under [b"trade", key]
TradeKeyArgs == ProductCosts \cup {1}
\* every key a trade account may live under
TradeKeys == ProductCosts \cup WideProductCosts \cup OverflowProductCosts \cup {1}
ProviderArgs == {P1, B1}
Winners == {B1, S1, P1}
Eleven == [i \in 1..11 |-> P1]
LogisticsLists ==
    { <<<<P1>>, <<100>>>>,
      <<<<P1>>, <<>>>>,
      <<<<>>, <<>>>>,
      <<<<>>, <<100>>>>,
      <<Eleven, [i \in 1..11 |-> 100]>> }
InitBal == [a \in TokenAccounts |->
              IF a = B1 THEN 2300 ELSE IF a = P1 THEN 1200 ELSE 0]

NoTrade == [active |-> FALSE, trade_id |-> 0]
NoPurchase == [purchase_id |-> 0]
NoAccount == [is_registered |-> FALSE, buyer |-> "none", purchase_ids |-> <<>>, exists |-> FALSE]

PurchaseIds == 1..MaxPurchases

VARIABLES global, trades, purchases, buyers, bal, settlements, last

vars == <<global, trades, purchases, buyers, bal, settlements, last>>

\* the accounts of the program, as one record
Prog == [global |-> global, trades |-> trades, purchases |-> purchases,
         buyers |-> buyers, bal |-> bal]

\* ------------------------------------------------------------ result values
\* overflow: an integer operation of the run left the u64 range (the value the
\* run went on with is the wrapped one)
Ok(st, xfers) == [res |-> "Ok", st |-> st, xfers |-> xfers, overflow |-> FALSE]
Err(st, code) == [res |-> code, st |-> st, xfers |-> <<>>, overflow |-> FALSE]

\* ------------------------------------------------------------ u64 arithmetic
\* u64::MAX, with the 64 bits scaled down to WordBits
U64Max == 2^WordBits - 1
\* the value a u64 operation leaves when overflow is not checked
WrappingU64(x) == x % (U64Max + 1)
\* the exact result x of a u64 operation is outside the type
OverflowsU64(x) == x < 0 \/ x > U64Max
\* result r of a run in which an operation overflowed when o
Flag(r, o) == [r EXCEPT !.overflow = @ \/ o]
\* what a run with result r leaves from state pre: with overflow-checks off
\* the wrapped run r; with overflow-checks on the overflowing operation
\* panics and the instruction aborts
Outcomes(pre, r) ==
    IF r.overflow
    THEN {r, [res |-> "ProgramFailedToComplete", st |-> pre, xfers |-> <<>>,
              overflow |-> TRUE]}
    ELSE {r}

\* -------------------------------------------------------------- token legs
\* owner (authority) of a token account: the escrow PDA is its own authority
\* (BuyTrade: token::authority = escrow_token_account)
Owner(acct) == acct

\* address a set of signer seeds signs for; only the seeds the escrow account
\* was created with (BuyTrade: [b"escrow", mint], bump) derive its address
EscrowSeeds == <<"escrow", Mint, "bump">>
PdaOf(seeds) == IF seeds = EscrowSeeds THEN Escrow ELSE "none"

\* mutant of token_transfer: the destination is credited, the source is not
\* debited
token_transfer_credit_only(b, from, to, authority, signers, amount) ==
    LET ok == /\ from # Frozen /\ to # Frozen
              /\ Owner(from) = authority
              /\ authority \in signers
              /\ b[from] >= amount
    IN [ok |-> ok,
        bal |-> IF ok /\ from # to THEN [b EXCEPT ![to] = @ + amount] ELSE b]

\* token::transfer(ctx, amount): fails when an account is frozen, when the
\* authority does not own the source or has not signed, or when the source
\* holds less than amount; a transfer to the source itself moves nothing.
token_transfer(b, from, to, authority, signers, amount) ==
    LET ok == /\ from # Frozen /\ to # Frozen
              /\ Owner(from) = authority
              /\ authority \in signers
              /\ b[from] >= amount
    IN [ok |-> ok,
        bal |-> IF ok /\ from # to
                THEN [b EXCEPT ![from] = @ - amount, ![to] = @ + amount]
                ELSE b]

\* --------------------------------------------------------------- initialize
\* a global_state account that has not been created
NoGlobal == [admin |-> "none", trade_counter |-> 0, purchase_counter |-> 0]

\* mutant of InitializeAccounts: an existing global_state is taken as it is
InitializeAccountsIfNeeded(st) == "Ok"

\* account constraints of Initialize: global_state is init at [b"global_state"]
InitializeAccounts(st) ==
    IF st.global # NoGlobal THEN "AccountAlreadyInUse" ELSE "Ok"

initialize(st, admin) ==
    LET a == InitializeAccounts(st) IN
    IF a # "Ok" THEN Err(st, a)
    ELSE Ok([st EXCEPT !.global = [admin |-> admin, trade_counter |-> 0,
                                   purchase_counter |-> 0]], <<>>)

\* ------------------------------------------------------------ create_trade
\* the require! chain of create_trade: the first failing check, or "Ok"
CreateTradeRequire(logistics_providers, logistics_costs, total_quantity) ==
    IF ~(Len(logistics_providers) = Len(logistics_costs)) THEN "MismatchedArrays"
    ELSE IF ~(logistics_providers # <<>>) THEN "NoLogisticsProviders"
    ELSE IF ~(Len(logistics_providers) <= MAX_LOGISTICS_PROVIDERS)
        THEN "TooManyProviders"
    ELSE IF ~(total_quantity > 0) THEN "InvalidQuantity"
    ELSE "Ok"

\* mutant of CreateTradeAccounts: an existing trade account is overwritten
CreateTradeAccountsNoInit(st, admin, product_cost) ==
    IF admin # st.global.admin THEN "ConstraintHasOne" ELSE "Ok"

\* account constraints of CreateTrade: trade_account is init at seeds
\* [b"trade", first u64 of the instruction data], which is product_cost;
\* global_state has_one = admin
CreateTradeAccounts(st, admin, product_cost) ==
    IF st.trades[product_cost] # NoTrade THEN "AccountAlreadyInUse"
    ELSE IF admin # st.global.admin THEN "ConstraintHasOne"
    ELSE "Ok"

\* mutant of create_trade: the trade takes the counter's value before the
\* increment
create_trade_old_counter(st, admin, seller, product_cost, logistics_providers, logistics_costs, total_quantity) ==
    LET a == CreateTradeAccounts(st, admin, product_cost)
        g == CreateTradeRequire(logistics_providers, logistics_costs, total_quantity)
    IN
    IF a # "Ok" THEN Err(st, a)
    ELSE IF g # "Ok" THEN Err(st, g)
    ELSE
    LET trade_id == st.global.trade_counter
        product_escrow_fee ==
            WrappingU64(product_cost * ESCROW_FEE_PERCENT) \div BASIS_POINTS
        trade_account ==
            [trade_id |-> trade_id,
             seller |-> seller,
             logistics_providers |-> logistics_providers,
             logistics_costs |-> logistics_costs,
             product_cost |-> product_cost,
             escrow_fee |-> product_escrow_fee,
             total_quantity |-> total_quantity,
             remaining_quantity |-> total_quantity,
             active |-> TRUE,
             purchase_ids |-> <<>>,
             token_mint |-> Mint]
    IN Ok([st EXCEPT !.global.trade_counter = trade_id + 1,
                     !.trades[product_cost] = trade_account], <<>>)

create_trade(st, admin, seller, product_cost, logistics_providers, logistics_costs, total_quantity) ==
    LET a == CreateTradeAccounts(st, admin, product_cost)
        g == CreateTradeRequire(logistics_providers, logistics_costs, total_quantity)
    IN
    IF a # "Ok" THEN Err(st, a)
    ELSE IF g # "Ok" THEN Err(st, g)
    ELSE
    LET trade_id == st.global.trade_counter + 1
        product_escrow_fee ==
            WrappingU64(product_cost * ESCROW_FEE_PERCENT) \div BASIS_POINTS
        trade_account ==
            [trade_id |-> trade_id,
             seller |-> seller,
             logistics_providers |-> logistics_providers,
             logistics_costs |-> logistics_costs,
             product_cost |-> product_cost,
             escrow_fee |-> product_escrow_fee,
             total_quantity |-> total_quantity,
             remaining_quantity |-> total_quantity,
             active |-> TRUE,
             purchase_ids |-> <<>>,
             token_mint |-> Mint]
    IN Flag(Ok([st EXCEPT !.global.trade_counter = trade_id,
                          !.trades[product_cost] = trade_account], <<>>),
            OverflowsU64(product_cost * ESCROW_FEE_PERCENT))

\* ---------------------------------------------------------------- buy_trade
\* mutant of FirstMatch: the scan keeps the last provider equal to p
FirstMatchLast(providers, p) ==
    IF \E i \in 1..Len(providers) : providers[i] = p
    THEN CHOOSE i \in 1..Len(providers) :
            /\ providers[i] = p
            /\ \A j \in (i + 1)..Len(providers) : providers[j] # p
    ELSE 0

\* index of the first provider equal to p, 0 when none (the for/break scan)
FirstMatch(providers, p) ==
    IF \E i \in 1..Len(providers) : providers[i] = p
    THEN CHOOSE i \in 1..Len(providers) :
            /\ providers[i] = p
            /\ \A j \in 1..(i - 1) : providers[j] # p
    ELSE 0

\* mutant of PushCapped: the id is always pushed
PushUncapped(ids, id) == Append(ids, id)

\* push to a Vec capped at MAX_PURCHASE_IDS
PushCapped(ids, id) == IF Len(ids) < MAX_PURCHASE_IDS THEN Append(ids, id) ELSE ids

\* mutant of BuyTradeRequire: the remaining quantity is not checked
BuyTradeRequireNoStock(trade_account, buyer, quantity, logistics_provider) ==
    IF ~(quantity > 0) THEN "InvalidQuantity"
    ELSE IF ~trade_account.active THEN "TradeInactive"
    ELSE IF ~(buyer # trade_account.seller) THEN "BuyerIsSeller"
    ELSE IF FirstMatch(trade_account.logistics_providers, logistics_provider) = 0
        THEN "InvalidLogisticsProvider"
    ELSE "Ok"

\* mutant of BuyTradeRequire: the seller check comes first
BuyTradeRequireSellerFirst(trade_account, buyer, quantity, logistics_provider) ==
    IF ~(buyer # trade_account.seller) THEN "BuyerIsSeller"
    ELSE IF ~(quantity > 0) THEN "InvalidQuantity"
    ELSE IF ~trade_account.active THEN "TradeInactive"
    ELSE IF ~(trade_account.remaining_quantity >= quantity)
        THEN "InsufficientQuantity"
    ELSE IF FirstMatch(trade_account.logistics_providers, logistics_provider) = 0
        THEN "InvalidLogisticsProvider"
    ELSE "Ok"

\* the require! chain of buy_trade: the first failing check, or "Ok"
BuyTradeRequire(trade_account, buyer, quantity, logistics_provider) ==
    IF ~(quantity > 0) THEN "InvalidQuantity"
    ELSE IF ~trade_account.active THEN "TradeInactive"
    ELSE IF ~(trade_account.remaining_quantity >= quantity)
        THEN "InsufficientQuantity"
    ELSE IF ~(buyer # trade_account.seller) THEN "BuyerIsSeller"
    ELSE IF FirstMatch(trade_account.logistics_providers, logistics_provider) = 0
        THEN "InvalidLogisticsProvider"
    ELSE "Ok"

\* mutant of BuyUpdateTrade: a sold-out trade stays active
BuyUpdateTradeStaysActive(trade_account, quantity, purchase_id) ==
    [trade_account EXCEPT
        !.remaining_quantity = @ - quantity,
        !.purchase_ids = PushCapped(@, purchase_id)]

\* trade state after a purchase of quantity units under purchase_id
BuyUpdateTrade(trade_account, quantity, purchase_id) ==
    LET remaining == trade_account.remaining_quantity - quantity IN
    [trade_account EXCEPT
        !.remaining_quantity = remaining,
        !.purchase_ids = PushCapped(@, purchase_id),
        !.active = IF remaining = 0 THEN FALSE ELSE @]

buy_trade(st, buyer, trade_id, quantity, logistics_provider) ==
    LET trade_account == st.trades[trade_id] IN
    IF trade_account = NoTrade THEN Err(st, "AccountNotInitialized")
    ELSE
    LET g == BuyTradeRequire(trade_account, buyer, quantity, logistics_provider) IN
    IF g # "Ok" THEN Err(st, g)
    ELSE
    LET i == FirstMatch(trade_account.logistics_providers, logistics_provider)
        chosen_logistics_cost == trade_account.logistics_costs[i]
        total_product_cost == WrappingU64(trade_account.product_cost * quantity)
        total_logistics_cost == WrappingU64(chosen_logistics_cost * quantity)
        total_amount == WrappingU64(total_product_cost + total_logistics_cost)
        overflow == \/ OverflowsU64(trade_account.product_cost * quantity)
                    \/ OverflowsU64(chosen_logistics_cost * quantity)
                    \/ OverflowsU64(total_product_cost + total_logistics_cost)
        t == token_transfer(st.bal, buyer, Escrow, buyer, {buyer}, total_amount)
    IN
    IF ~t.ok THEN Flag(Err(st, "TransferFailed"), overflow)
    ELSE
    LET purchase_id == st.global.purchase_counter + 1
        purchase_account ==
            [purchase_id |-> purchase_id,
             trade_id |-> trade_id,
             buyer |-> buyer,
             quantity |-> quantity,
             total_amount |-> total_amount,
             delivered_and_confirmed |-> FALSE,
             disputed |-> FALSE,
             chosen_logistics_provider |-> logistics_provider,
             logistics_cost |-> total_logistics_cost,
             settled |-> FALSE]
        trade2 == BuyUpdateTrade(trade_account, quantity, purchase_id)
        b0 == st.buyers[buyer]
        b1 == IF ~b0.is_registered
              THEN [buyer |-> buyer, is_registered |-> TRUE,
                    purchase_ids |-> <<>>, exists |-> TRUE]
              ELSE [b0 EXCEPT !.exists = TRUE]
        b2 == [b1 EXCEPT !.purchase_ids = PushCapped(@, purchase_id)]
    IN Flag(Ok([st EXCEPT !.bal = t.bal,
                          !.global.purchase_counter = purchase_id,
                          !.purchases[purchase_id] = purchase_account,
                          !.trades[trade_id] = trade2,
                          !.buyers[buyer] = b2],
               <<<<buyer, Escrow, total_amount>>>>),
            overflow)

\* ------------------------------------------- confirm_delivery_and_purchase
\* signer seeds built by the payout handlers: [b"escrow", token_mint, bump]
PayoutSeeds(trade_account) == <<"escrow", trade_account.token_mint, "bump">>

ConfirmProductEscrowFee(trade_account, purchase_account) ==
    WrappingU64(trade_account.product_cost * ESCROW_FEE_PERCENT
                    * purchase_account.quantity)
        \div BASIS_POINTS

ConfirmSellerAmount(trade_account, purchase_account) ==
    WrappingU64(WrappingU64(trade_account.product_cost * purchase_account.quantity)
                    - ConfirmProductEscrowFee(trade_account, purchase_account))

\* mutant of ConfirmLogisticsEscrowFee: the fee is rounded up
ConfirmLogisticsEscrowFeeCeil(purchase_account) ==
    (purchase_account.logistics_cost * ESCROW_FEE_PERCENT + (BASIS_POINTS - 1))
        \div BASIS_POINTS

ConfirmLogisticsEscrowFee(purchase_account) ==
    WrappingU64(purchase_account.logistics_cost * ESCROW_FEE_PERCENT) \div BASIS_POINTS

ConfirmLogisticsAmount(purchase_account) ==
    WrappingU64(purchase_account.logistics_cost
                    - ConfirmLogisticsEscrowFee(purchase_account))

\* an operation of the seller leg of a payout leaves the u64 range
SellerLegOverflows(trade_account, purchase_account) ==
    \/ OverflowsU64(trade_account.product_cost * ESCROW_FEE_PERCENT
                        * purchase_account.quantity)
    \/ OverflowsU64(trade_account.product_cost * purchase_account.quantity)
    \/ OverflowsU64(WrappingU64(trade_account.product_cost * purchase_account.quantity)
                        - ConfirmProductEscrowFee(trade_account, purchase_account))

\* an operation of the logistics leg of a payout leaves the u64 range
LogisticsLegOverflows(purchase_account) ==
    \/ OverflowsU64(purchase_account.logistics_cost * ESCROW_FEE_PERCENT)
    \/ OverflowsU64(purchase_account.logistics_cost
                        - ConfirmLogisticsEscrowFee(purchase_account))

\* mutant of ConfirmRequire: the caller is checked after the flags
ConfirmRequireFlagsFirst(purchase_account, buyer) ==
    IF ~(~purchase_account.delivered_and_confirmed) THEN "AlreadyConfirmed"
    ELSE IF ~(~purchase_account.disputed) THEN "Disputed"
    ELSE IF ~(~purchase_account.settled) THEN "AlreadySettled"
    ELSE IF ~(buyer = purchase_account.buyer) THEN "NotAuthorized"
    ELSE "Ok"

\* mutant of ConfirmRequire: settled is checked before delivered_and_confirmed
ConfirmRequireSettledFirst(purchase_account, buyer) ==
    IF ~(buyer = purchase_account.buyer) THEN "NotAuthorized"
    ELSE IF ~(~purchase_account.settled) THEN "AlreadySettled"
    ELSE IF ~(~purchase_account.delivered_and_confirmed) THEN "AlreadyConfirmed"
    ELSE IF ~(~purchase_account.disputed) THEN "Disputed"
    ELSE "Ok"

\* mutant of ConfirmRequire: a dispute does not stop the confirmation
ConfirmRequireDisputeIgnored(purchase_account, buyer) ==
    IF ~(buyer = purchase_account.buyer) THEN "NotAuthorized"
    ELSE IF ~(~purchase_account.delivered_and_confirmed) THEN "AlreadyConfirmed"
    ELSE IF ~(~purchase_account.settled) THEN "AlreadySettled"
    ELSE "Ok"

\* the require! chain of confirm_delivery_and_purchase: the first failing
\* check, or "Ok"
ConfirmRequire(purchase_account, buyer) ==
    IF ~(buyer = purchase_account.buyer) THEN "NotAuthorized"
    ELSE IF ~(~purchase_account.delivered_and_confirmed) THEN "AlreadyConfirmed"
    ELSE IF ~(~purchase_account.disputed) THEN "Disputed"
    ELSE IF ~(~purchase_account.settled) THEN "AlreadySettled"
    ELSE "Ok"

\* seller_token_account and logistics_token_account are whatever token
\* accounts the caller passes (ConfirmDeliveryAndPurchase: #[account(mut)]
\* only)
confirm_delivery_and_purchase(st, buyer, purchase_id, seller_token_account, logistics_token_account) ==
    LET purchase_account == st.purchases[purchase_id] IN
    IF purchase_account = NoPurchase THEN Err(st, "AccountNotInitialized")
    ELSE
    LET g == ConfirmRequire(purchase_account, buyer) IN
    IF g # "Ok" THEN Err(st, g)
    ELSE
    LET st1 == [st EXCEPT
                  !.purchases[purchase_id].delivered_and_confirmed = TRUE,
                  !.purchases[purchase_id].settled = TRUE]
        trade_account == st.trades[purchase_account.trade_id]
        seller_amount == ConfirmSellerAmount(trade_account, purchase_account)
        signer == {PdaOf(PayoutSeeds(trade_account))}
        o1 == SellerLegOverflows(trade_account, purchase_account)
        t1 == token_transfer(st1.bal, Escrow, seller_token_account, Escrow,
                             signer, seller_amount)
    IN
    IF ~t1.ok THEN Flag(Err(st1, "TransferFailed"), o1)
    ELSE
    LET st2 == [st1 EXCEPT !.bal = t1.bal]
        logistics_amount == ConfirmLogisticsAmount(purchase_account)
        o2 == o1 \/ LogisticsLegOverflows(purchase_account)
        t2 == token_transfer(st2.bal, Escrow, logistics_token_account, Escrow,
                             signer, logistics_amount)
    IN
    IF ~t2.ok THEN Flag(Err(st2, "TransferFailed"), o2)
    ELSE Flag(Ok([st2 EXCEPT !.bal = t2.bal],
                 << <<Escrow, seller_token_account, seller_amount>>,
                    <<Escrow, logistics_token_account, logistics_amount>> >>),
              o2)

\* ------------------------------------------------------------ raise_dispute
\* mutant of RaiseDisputeRequire: only the disputed flag is checked
RaiseDisputeRequireDisputedOnly(purchase_account) ==
    IF ~(~purchase_account.disputed) THEN "AlreadyDisputed" ELSE "Ok"

\* the require! chain of raise_dispute: the first failing check, or "Ok"
RaiseDisputeRequire(purchase_account) ==
    IF ~(~purchase_account.delivered_and_confirmed) THEN "AlreadyConfirmed"
    ELSE IF ~(~purchase_account.disputed) THEN "AlreadyDisputed"
    ELSE "Ok"

\* mutant of raise_dispute: only the purchase's buyer may raise a dispute
raise_dispute_by_buyer(st, user, purchase_id) ==
    LET purchase_account == st.purchases[purchase_id] IN
    IF purchase_account = NoPurchase THEN Err(st, "AccountNotInitialized")
    ELSE IF user # purchase_account.buyer THEN Err(st, "NotAuthorized")
    ELSE
    LET g == RaiseDisputeRequire(purchase_account) IN
    IF g # "Ok" THEN Err(st, g)
    ELSE Ok([st EXCEPT !.purchases[purchase_id].disputed = TRUE], <<>>)

\* mutant of raise_dispute: the flag is written before the checks
raise_dispute_flag_first(st, user, purchase_id) ==
    LET purchase_account == st.purchases[purchase_id] IN
    IF purchase_account = NoPurchase THEN Err(st, "AccountNotInitialized")
    ELSE
    LET g == RaiseDisputeRequire(purchase_account)
        st1 == [st EXCEPT !.purchases[purchase_id].disputed = TRUE]
    IN
    IF g # "Ok" THEN Err(st1, g)
    ELSE Ok(st1, <<>>)

raise_dispute(st, user, purchase_id) ==
    LET purchase_account == st.purchases[purchase_id] IN
    IF purchase_account = NoPurchase THEN Err(st, "AccountNotInitialized")
    ELSE
    LET g == RaiseDisputeRequire(purchase_account) IN
    IF g # "Ok" THEN Err(st, g)
    ELSE Ok([st EXCEPT !.purchases[purchase_id].disputed = TRUE], <<>>)

\* ---------------------------------------------------------- resolve_dispute
\* mutant of ResolveProductEscrowFee: the unit fee stored at creation, per unit
ResolveProductEscrowFeeCached(trade_account, purchase_account) ==
    trade_account.escrow_fee * purchase_account.quantity

ResolveProductEscrowFee(trade_account, purchase_account) ==
    WrappingU64(trade_account.product_cost * ESCROW_FEE_PERCENT
                    * purchase_account.quantity)
        \div BASIS_POINTS

ResolveSellerAmount(trade_account, purchase_account) ==
    WrappingU64(WrappingU64(trade_account.product_cost * purchase_account.quantity)
                    - ResolveProductEscrowFee(trade_account, purchase_account))

ResolveLogisticsEscrowFee(purchase_account) ==
    WrappingU64(purchase_account.logistics_cost * ESCROW_FEE_PERCENT) \div BASIS_POINTS

\* mutant of ResolveLogisticsPayout: the provider is paid without the fee
ResolveLogisticsPayoutNoFee(purchase_account) == purchase_account.logistics_cost

ResolveLogisticsPayout(purchase_account) ==
    WrappingU64(purchase_account.logistics_cost
                    - ResolveLogisticsEscrowFee(purchase_account))

\* mutant of RestoreQuantity: the stock is not put back
RestoreQuantityNotAdded(trade_account, quantity) ==
    [trade_account EXCEPT !.active = IF ~@ /\ quantity > 0 THEN TRUE ELSE @]

\* mutant of RestoreQuantity: the stock is put back, the trade is not
\* reactivated
RestoreQuantityStaysInactive(trade_account, quantity) ==
    [trade_account EXCEPT !.remaining_quantity = @ + quantity]

\* remaining_quantity += quantity; reactivate when inactive and stock is back
RestoreQuantity(trade_account, quantity) ==
    LET remaining == trade_account.remaining_quantity + quantity IN
    [trade_account EXCEPT
        !.remaining_quantity = remaining,
        !.active = IF ~@ /\ remaining > 0 THEN TRUE ELSE @]

\* mutant of ResolveDisputeRequire: settled is checked before disputed
ResolveDisputeRequireSettledFirst(purchase_account, trade_account, winner) ==
    LET valid_winner == \/ winner = purchase_account.buyer
                        \/ winner = trade_account.seller
                        \/ winner = purchase_account.chosen_logistics_provider
    IN
    IF ~(~purchase_account.settled) THEN "AlreadySettled"
    ELSE IF ~purchase_account.disputed THEN "NotDisputed"
    ELSE IF ~valid_winner THEN "InvalidWinner"
    ELSE "Ok"

\* the require! chain of resolve_dispute: the first failing check, or "Ok"
ResolveDisputeRequire(purchase_account, trade_account, winner) ==
    LET valid_winner == \/ winner = purchase_account.buyer
                        \/ winner = trade_account.seller
                        \/ winner = purchase_account.chosen_logistics_provider
    IN
    IF ~purchase_account.disputed THEN "NotDisputed"
    ELSE IF ~(~purchase_account.settled) THEN "AlreadySettled"
    ELSE IF ~valid_winner THEN "InvalidWinner"
    ELSE "Ok"

resolve_dispute(st, admin, purchase_id, winner, buyer_token_account, seller_token_account, logistics_token_account) ==
    LET purchase_account == st.purchases[purchase_id] IN
    IF purchase_account = NoPurchase THEN Err(st, "AccountNotInitialized")
    ELSE IF admin # st.global.admin THEN Err(st, "ConstraintHasOne")
    ELSE
    LET trade_account == st.trades[purchase_account.trade_id]
        g == ResolveDisputeRequire(purchase_account, trade_account, winner)
    IN
    IF g # "Ok" THEN Err(st, g)
    ELSE
    LET st1 == [st EXCEPT
                  !.purchases[purchase_id].delivered_and_confirmed = TRUE,
                  !.purchases[purchase_id].settled = TRUE]
        signer == {PdaOf(PayoutSeeds(trade_account))}
    IN
    IF winner = purchase_account.buyer
    THEN LET t == token_transfer(st1.bal, Escrow, buyer_token_account, Escrow,
                                 signer, purchase_account.total_amount)
         IN IF ~t.ok THEN Err(st1, "TransferFailed")
            ELSE Ok([st1 EXCEPT
                       !.bal = t.bal,
                       !.trades[purchase_account.trade_id] =
                           RestoreQuantity(@, purchase_account.quantity)],
                    << <<Escrow, buyer_token_account, purchase_account.total_amount>> >>)
    ELSE LET seller_amount == ResolveSellerAmount(trade_account, purchase_account)
             o1 == SellerLegOverflows(trade_account, purchase_account)
             t1 == token_transfer(st1.bal, Escrow, seller_token_account, Escrow,
                                  signer, seller_amount)
         IN IF ~t1.ok THEN Flag(Err(st1, "TransferFailed"), o1)
            ELSE
            LET st2 == [st1 EXCEPT !.bal = t1.bal]
                logistics_payout == ResolveLogisticsPayout(purchase_account)
                o2 == o1 \/ LogisticsLegOverflows(purchase_account)
                t2 == token_transfer(st2.bal, Escrow, logistics_token_account,
                                     Escrow, signer, logistics_payout)
            IN IF ~t2.ok THEN Flag(Err(st2, "TransferFailed"), o2)
               ELSE Flag(Ok([st2 EXCEPT !.bal = t2.bal],
                            << <<Escrow, seller_token_account, seller_amount>>,
                               <<Escrow, logistics_token_account, logistics_payout>> >>),
                         o2)

\* ---------------------------------------------------------- cancel_purchase
\* mutant of CancelRequire: only the caller is checked
CancelRequireCallerOnly(purchase_account, buyer) ==
    IF ~(buyer = purchase_account.buyer) THEN "NotAuthorized" ELSE "Ok"

\* the require! chain of cancel_purchase: the first failing check, or "Ok"
CancelRequire(purchase_account, buyer) ==
    IF ~(buyer = purchase_account.buyer) THEN "NotAuthorized"
    ELSE IF ~(~purchase_account.delivered_and_confirmed) THEN "AlreadyConfirmed"
    ELSE IF ~(~purchase_account.disputed) THEN "Disputed"
    ELSE IF ~(~purchase_account.settled) THEN "AlreadySettled"
    ELSE "Ok"

cancel_purchase(st, buyer, purchase_id, buyer_token_account) ==
    LET purchase_account == st.purchases[purchase_id] IN
    IF purchase_account = NoPurchase THEN Err(st, "AccountNotInitialized")
    ELSE
    LET g == CancelRequire(purchase_account, buyer) IN
    IF g # "Ok" THEN Err(st, g)
    ELSE
    LET trade_account == st.trades[purchase_account.trade_id]
        st1 == [st EXCEPT
                  !.purchases[purchase_id].delivered_and_confirmed = TRUE,
                  !.purchases[purchase_id].settled = TRUE,
                  !.trades[purchase_account.trade_id] =
                      RestoreQuantity(@, purchase_account.quantity)]
        signer == {PdaOf(PayoutSeeds(trade_account))}
        t == token_transfer(st1.bal, Escrow, buyer_token_account, Escrow,
                            signer, purchase_account.total_amount)
    IN IF ~t.ok THEN Err(st1, "TransferFailed")
       ELSE Ok([st1 EXCEPT !.bal = t.bal],
               << <<Escrow, buyer_token_account, purchase_account.total_amount>> >>)

\* ----------------------------------------------------- withdraw_escrow_fees
\* mutant of WithdrawSeeds: the seeds the escrow account was created with
WithdrawSeedsWithMint == <<"escrow", Mint, "bump">>

\* signer seeds of the withdrawal: [b"escrow", [254]] (no mint)
WithdrawSeeds == <<"escrow", WITHDRAW_BUMP>>

withdraw_escrow_fees(st, admin, admin_token_account) ==
    IF admin # st.global.admin THEN Err(st, "ConstraintHasOne")
    ELSE
    LET balance == st.bal[Escrow] IN
    IF ~(balance > 0) THEN Err(st, "NoFeesToWithdraw")
    ELSE
    LET t == token_transfer(st.bal, Escrow, admin_token_account, Escrow,
                            {PdaOf(WithdrawSeeds)}, balance)
    IN IF ~t.ok THEN Err(st, "TransferFailed")
       ELSE Ok([st EXCEPT !.bal = t.bal],
               << <<Escrow, admin_token_account, balance>> >>)

\* ----------------------------------------------------------- register_buyer
\* mutant of register_buyer: an existing profile is initialised again
register_buyer_again(st, buyer) ==
    Ok([st EXCEPT !.buyers[buyer] =
           [buyer |-> buyer, is_registered |-> TRUE,
            purchase_ids |-> <<>>, exists |-> TRUE]], <<>>)

register_buyer(st, buyer) ==
    IF st.buyers[buyer].exists THEN Err(st, "AccountAlreadyInUse")
    ELSE Ok([st EXCEPT !.buyers[buyer] =
                [buyer |-> buyer, is_registered |-> TRUE,
                 purchase_ids |-> <<>>, exists |-> TRUE]], <<>>)

\* ------------------------------------------------------------ program entry
\* an instruction that returns Err commits nothing: the accounts are written
\* back only after the handler returned Ok, and the token legs of a failed
\* instruction are undone with it
\* mutant of Dispatch: what the handler wrote is kept whatever it returned
DispatchKeepsAll(pre, r) == r

Dispatch(pre, r) ==
    IF r.res = "Ok" THEN r
    ELSE [res |-> r.res, st |-> pre, xfers |-> <<>>, overflow |-> r.overflow]

\* BuyTrade accounts: the purchase account the client passes must be the PDA
\* of purchase_counter + 1 as the counter stands when the instruction runs
BuyTradeAccounts(st, slot) ==
    IF slot # st.global.purchase_counter + 1 THEN "ConstraintSeeds" ELSE "Ok"

\* buy_trade with the purchase account named by the client (slot)
buy_trade_at(st, buyer, trade_id, quantity, logistics_provider, slot) ==
    LET a == BuyTradeAccounts(st, slot)
    IN IF a # "Ok" THEN Err(st, a)
       ELSE buy_trade(st, buyer, trade_id, quantity, logistics_provider)

\* two buy_trade transactions in flight at once: both write-lock global_state
\* and the trade account (BuyTrade: mut), so the runtime runs one to its end,
\* commits it, and only then runs the other on what the first left. The
\* results of the first and of the second, from state st; a request is
\* <<buyer, trade_id, quantity, logistics_provider, slot>>.
SerialBuys(st, first, second) ==
    LET r1 == Dispatch(st, buy_trade_at(st, first[1], first[2], first[3], first[4], first[5]))
        r2 == Dispatch(r1.st, buy_trade_at(r1.st, second[1], second[2], second[3],
                                           second[4], second[5]))
    IN <<r1, r2>>

\* ------------------------------------------------------------------- Init
\* the state after initialize(admin): both counters 0, no trade, no purchase
Init ==
    /\ global = [admin |-> Admin, trade_counter |-> 0, purchase_counter |-> 0]
    /\ trades = [k \in TradeKeys |-> NoTrade]
    /\ purchases = [p \in PurchaseIds |-> NoPurchase]
    /\ buyers = [b \in Identities |-> NoAccount]
    /\ bal = InitBal
    /\ settlements = [p \in PurchaseIds |-> <<>>]
    /\ last = [op |-> "initialize", caller |-> Admin, id |-> 0,
               arg |-> <<>>, xfers |-> <<>>]

\* settlements[p] is the history of the settlements that committed on
\* purchase p: "confirm", "cancel", "refund" (dispute won by the buyer) or
\* "payout" (dispute won by the seller or the provider)
\*
\* commit the dispatched result r of instruction op; last records the last
\* instruction that returned Ok (a rejected instruction leaves no trace)
\* whether the build checks overflow is not fixed by the source: a run that
\* overflowed commits either of its outcomes
Apply(op, caller, id, arg, run, how) ==
    \E r \in Outcomes(Prog, run) :
    /\ global' = r.st.global
    /\ trades' = r.st.trades
    /\ purchases' = r.st.purchases
    /\ buyers' = r.st.buyers
    /\ bal' = r.st.bal
    /\ settlements' = IF r.res = "Ok" /\ how # "none"
                      THEN [settlements EXCEPT ![id] = Append(@, how)]
                      ELSE settlements
    /\ last' = IF r.res = "Ok"
               THEN [op |-> op, caller |-> caller, id |-> id, arg |-> arg,
                     xfers |-> r.xfers]
               ELSE last

Initialize ==
    \E admin \in AdminCallers :
       Apply("initialize", admin, 0, <<>>,
             Dispatch(Prog, initialize(Prog, admin)), "none")

CreateTrade ==
    /\ global.trade_counter < MaxTrades
    /\ \E admin \in AdminCallers, seller \in Sellers, product_cost \in ProductCosts,
          ll \in LogisticsLists, total_quantity \in TotalQuantities :
         Apply("create_trade", admin, product_cost, <<seller, ll, total_quantity>>,
               Dispatch(Prog, create_trade(Prog, admin, seller, product_cost,
                                           ll[1], ll[2], total_quantity)),
               "none")

BuyTrade ==
    /\ global.purchase_counter < MaxPurchases
    /\ \E buyer \in BuyCallers, trade_id \in TradeKeyArgs, quantity \in Quantities,
          logistics_provider \in ProviderArgs :
         Apply("buy_trade", buyer, global.purchase_counter + 1,
               <<trade_id, quantity, logistics_provider>>,
               Dispatch(Prog, buy_trade(Prog, buyer, trade_id, quantity,
                                        logistics_provider)),
               "none")

ConfirmDeliveryAndPurchase ==
    \E buyer \in Callers, purchase_id \in PurchaseIds,
       seller_token_account \in DestAccounts,
       logistics_token_account \in DestAccounts :
       Apply("confirm_delivery_and_purchase", buyer, purchase_id,
             <<seller_token_account, logistics_token_account>>,
             Dispatch(Prog, confirm_delivery_and_purchase(Prog, buyer, purchase_id,
                         seller_token_account, logistics_token_account)),
             "confirm")

RaiseDispute ==
    \E user \in Callers, purchase_id \in PurchaseIds :
       Apply("raise_dispute", user, purchase_id, <<>>,
             Dispatch(Prog, raise_dispute(Prog, user, purchase_id)), "none")

ResolveDispute ==
    \E admin \in AdminCallers, purchase_id \in PurchaseIds, winner \in Winners,
       accounts \in ResolveAccounts :
       LET buyer_token_account == accounts[1]
           seller_token_account == accounts[2]
           logistics_token_account == accounts[3]
       IN
       Apply("resolve_dispute", admin, purchase_id, <<winner, accounts>>,
             Dispatch(Prog, resolve_dispute(Prog, admin, purchase_id, winner,
                         buyer_token_account, seller_token_account,
                         logistics_token_account)),
             IF purchases[purchase_id] # NoPurchase
                /\ winner = purchases[purchase_id].buyer
             THEN "refund" ELSE "payout")

CancelPurchase ==
    \E buyer \in Callers, purchase_id \in PurchaseIds,
       buyer_token_account \in DestAccounts :
       Apply("cancel_purchase", buyer, purchase_id, <<buyer_token_account>>,
             Dispatch(Prog, cancel_purchase(Prog, buyer, purchase_id,
                                            buyer_token_account)),
             "cancel")

WithdrawEscrowFees ==
    \E admin \in AdminCallers, admin_token_account \in DestAccounts :
       Apply("withdraw_escrow_fees", admin, 0, <<>>,
             Dispatch(Prog, withdraw_escrow_fees(Prog, admin, admin_token_account)),
             "none")

RegisterBuyer ==
    \E buyer \in RegisterCallers :
       Apply("register_buyer", buyer, 0, <<>>,
             Dispatch(Prog, register_buyer(Prog, buyer)), "none")

Next ==
    \/ Initialize
    \/ CreateTrade
    \/ BuyTrade
    \/ ConfirmDeliveryAndPurchase
    \/ RaiseDispute
    \/ ResolveDispute
    \/ CancelPurchase
    \/ WithdrawEscrowFees
    \/ RegisterBuyer

Spec == Init /\ [][Next]_vars

\* ------------------------------------------------------ fair specification
\* The parties do not give up: the buyer of a purchase keeps trying to confirm
\* and to cancel it, and the admin keeps trying to resolve it, paying to the
\* party's own token account or to a frozen one. Calls that are certain to be
\* rejected (other callers, malformed trades) change nothing and are left out.
FairDest(party) == {party, Frozen}

ConfirmByBuyer(p) ==
    /\ purchases[p] # NoPurchase
    /\ \E seller_token_account \in FairDest(S1), logistics_token_account \in FairDest(P1) :
          Apply("confirm_delivery_and_purchase", purchases[p].buyer, p,
                <<seller_token_account, logistics_token_account>>,
                Dispatch(Prog, confirm_delivery_and_purchase(Prog, purchases[p].buyer, p,
                            seller_token_account, logistics_token_account)),
                "confirm")

CancelByBuyer(p) ==
    /\ purchases[p] # NoPurchase
    /\ \E buyer_token_account \in FairDest(purchases[p].buyer) :
          Apply("cancel_purchase", purchases[p].buyer, p, <<buyer_token_account>>,
                Dispatch(Prog, cancel_purchase(Prog, purchases[p].buyer, p,
                                               buyer_token_account)),
                "cancel")

ResolveByAdmin(p) ==
    /\ purchases[p] # NoPurchase
    /\ \E winner \in Winners,
          accounts \in {<<purchases[p].buyer, S1, P1>>, <<Frozen, Frozen, P1>>} :
          Apply("resolve_dispute", global.admin, p, <<winner, accounts>>,
                Dispatch(Prog, resolve_dispute(Prog, global.admin, p, winner,
                            accounts[1], accounts[2], accounts[3])),
                IF winner = purchases[p].buyer THEN "refund" ELSE "payout")

Fairness ==
    \A p \in PurchaseIds :
        /\ WF_vars(ConfirmByBuyer(p))
        /\ WF_vars(CancelByBuyer(p))
        /\ WF_vars(ResolveByAdmin(p))

CreateTradeFair ==
    /\ global.trade_counter < MaxTrades
    /\ \E product_cost \in ProductCosts, total_quantity \in {1, 2} :
         Apply("create_trade", Admin, product_cost,
               <<S1, <<<<P1>>, <<100>>>>, total_quantity>>,
               Dispatch(Prog, create_trade(Prog, Admin, S1, product_cost,
                                           <<P1>>, <<100>>, total_quantity)),
               "none")

BuyTradeFair ==
    /\ global.purchase_counter < MaxPurchases
    /\ \E buyer \in BuyCallers, trade_id \in ProductCosts, quantity \in {1, 2} :
         Apply("buy_trade", buyer, global.purchase_counter + 1,
               <<trade_id, quantity, P1>>,
               Dispatch(Prog, buy_trade(Prog, buyer, trade_id, quantity, P1)),
               "none")

SettleByParty ==
    \E p \in PurchaseIds :
        \/ ConfirmByBuyer(p)
        \/ CancelByBuyer(p)
        \/ ResolveByAdmin(p)

NextFair ==
    \/ CreateTradeFair
    \/ BuyTradeFair
    \/ RaiseDispute
    \/ WithdrawEscrowFees
    \/ SettleByParty

SpecFair == Init /\ [][NextFair]_vars /\ Fairness

\* ---------------------------------------------------- ledger specification
\* The token accounts of a settlement are whatever accounts the caller passes
\* (#[account(mut)] only): here the party's own account or the escrow token
\* account itself, to which a transfer from escrow moves nothing. (A build
\* whose framework refuses the same mutable account twice rejects the latter
\* call, which then changes nothing.)
LedgerDest(party) == {party, Escrow}

ConfirmLedger ==
    \E p \in PurchaseIds, seller_token_account \in LedgerDest(S1),
       logistics_token_account \in LedgerDest(P1) :
       /\ purchases[p] # NoPurchase
       /\ Apply("confirm_delivery_and_purchase", purchases[p].buyer, p,
                <<seller_token_account, logistics_token_account>>,
                Dispatch(Prog, confirm_delivery_and_purchase(Prog, purchases[p].buyer, p,
                            seller_token_account, logistics_token_account)),
                "confirm")

CancelLedger ==
    \E p \in PurchaseIds :
       /\ purchases[p] # NoPurchase
       /\ \E buyer_token_account \in LedgerDest(purchases[p].buyer) :
             Apply("cancel_purchase", purchases[p].buyer, p, <<buyer_token_account>>,
                   Dispatch(Prog, cancel_purchase(Prog, purchases[p].buyer, p,
                                                  buyer_token_account)),
                   "cancel")

ResolveLedger ==
    \E p \in PurchaseIds, winner \in Winners :
       /\ purchases[p] # NoPurchase
       /\ \E buyer_token_account \in LedgerDest(purchases[p].buyer),
             seller_token_account \in LedgerDest(S1) :
             Apply("resolve_dispute", global.admin, p,
                   <<winner, <<buyer_token_account, seller_token_account, P1>>>>,
                   Dispatch(Prog, resolve_dispute(Prog, global.admin, p, winner,
                               buyer_token_account, seller_token_account, P1)),
                   IF winner = purchases[p].buyer THEN "refund" ELSE "payout")

NextLedger ==
    \/ CreateTradeFair
    \/ BuyTradeFair
    \/ RaiseDispute
    \/ WithdrawEscrowFees
    \/ ConfirmLedger
    \/ CancelLedger
    \/ ResolveLedger

SpecLedger == Init /\ [][NextLedger]_vars

\* ------------------------------------------- wide-arithmetic specification
\* Starts in the states create_trade and buy_trade leave behind for every
\* unit product cost, unit logistics cost and quantity of the wide domain
\* (buyer B1 funded with 4000), and runs the instructions that settle.
WideEmpty ==
    [global |-> [admin |-> Admin, trade_counter |-> 0, purchase_counter |-> 0],
     trades |-> [k \in TradeKeys |-> NoTrade],
     purchases |-> [p \in PurchaseIds |-> NoPurchase],
     buyers |-> [b \in Identities |-> NoAccount],
     bal |-> [a \in TokenAccounts |-> IF a = B1 THEN 4000 ELSE 0]]

WideBought(product_cost, logistics_cost, quantity) ==
    buy_trade(create_trade(WideEmpty, Admin, S1, product_cost, <<P1>>,
                           <<logistics_cost>>, 3).st,
              B1, product_cost, quantity, P1)

InitWide ==
    \E product_cost \in WideProductCosts, logistics_cost \in WideLogisticsCosts,
       quantity \in WideQuantities :
       LET r == WideBought(product_cost, logistics_cost, quantity) IN
       /\ r.res = "Ok"
       /\ global = r.st.global
       /\ trades = r.st.trades
       /\ purchases = r.st.purchases
       /\ buyers = r.st.buyers
       /\ bal = r.st.bal
       /\ settlements = [p \in PurchaseIds |-> <<>>]
       /\ last = [op |-> "buy_trade", caller |-> B1, id |-> 1,
                  arg |-> <<product_cost, quantity, P1>>, xfers |-> r.xfers]

NextWide ==
    \/ ConfirmDeliveryAndPurchase
    \/ RaiseDispute
    \/ ResolveDispute
    \/ CancelPurchase

SpecWide == InitWide /\ [][NextWide]_vars

\* -------------------------------------------- several-trades specification
\* Trades with several logistics options, one provider listed twice at
\* different costs, created one after the other under different unit costs,
\* and the purchases made against them.
MultiProductCosts == {39, 40}
MultiLists ==
    { <<<<P1, B1, P1>>, <<100, 7, 9>>>>,
      <<<<B1, P1>>, <<7, 100>>>> }
MultiTotalQuantities == {2}

CreateTradeMulti ==
    /\ global.trade_counter < MaxMultiTrades
    /\ \E admin \in AdminCallers, seller \in Sellers, product_cost \in MultiProductCosts,
          ll \in MultiLists, total_quantity \in MultiTotalQuantities :
         Apply("create_trade", admin, product_cost, <<seller, ll, total_quantity>>,
               Dispatch(Prog, create_trade(Prog, admin, seller, product_cost,
                                           ll[1], ll[2], total_quantity)),
               "none")

BuyTradeMulti ==
    /\ global.purchase_counter < MaxPurchases
    /\ \E buyer \in BuyCallers, trade_id \in MultiProductCosts, quantity \in Quantities,
          logistics_provider \in ProviderArgs :
         Apply("buy_trade", buyer, global.purchase_counter + 1,
               <<trade_id, quantity, logistics_provider>>,
               Dispatch(Prog, buy_trade(Prog, buyer, trade_id, quantity,
                                        logistics_provider)),
               "none")

NextMulti ==
    \/ CreateTradeMulti
    \/ BuyTradeMulti

SpecMulti == Init /\ [][NextMulti]_vars

\* =================================================================== claims
\* --------------------------------------------------- overflow specification
\* Trades whose unit costs are near the top of the u64 range, a buyer who
\* holds the whole supply, and the instructions that compute totals and fees.
InitOverflow ==
    /\ global = [admin |-> Admin, trade_counter |-> 0, purchase_counter |-> 0]
    /\ trades = [k \in TradeKeys |-> NoTrade]
    /\ purchases = [p \in PurchaseIds |-> NoPurchase]
    /\ buyers = [b \in Identities |-> NoAccount]
    /\ bal = [a \in TokenAccounts |-> IF a = B1 THEN U64Max ELSE 0]
    /\ settlements = [p \in PurchaseIds |-> <<>>]
    /\ last = [op |-> "initialize", caller |-> Admin, id |-> 0,
               arg |-> <<>>, xfers |-> <<>>]

CreateTradeOverflow ==
    /\ global.trade_counter < MaxMultiTrades
    /\ \E product_cost \in OverflowProductCosts, ll \in OverflowLists,
          total_quantity \in OverflowTotalQuantities :
         Apply("create_trade", Admin, product_cost, <<S1, ll, total_quantity>>,
               Dispatch(Prog, create_trade(Prog, Admin, S1, product_cost,
                                           ll[1], ll[2], total_quantity)),
               "none")

BuyTradeOverflow ==
    /\ global.purchase_counter < MaxPurchases
    /\ \E trade_id \in OverflowProductCosts, quantity \in OverflowQuantities :
         Apply("buy_trade", B1, global.purchase_counter + 1,
               <<trade_id, quantity, P1>>,
               Dispatch(Prog, buy_trade(Prog, B1, trade_id, quantity, P1)),
               "none")

ConfirmDeliveryOverflow ==
    \E purchase_id \in PurchaseIds :
       Apply("confirm_delivery_and_purchase", B1, purchase_id, <<S1, P1>>,
             Dispatch(Prog, confirm_delivery_and_purchase(Prog, B1, purchase_id,
                                                          S1, P1)),
             "confirm")

RaiseDisputeOverflow ==
    \E purchase_id \in PurchaseIds :
       Apply("raise_dispute", B1, purchase_id, <<>>,
             Dispatch(Prog, raise_dispute(Prog, B1, purchase_id)), "none")

ResolveDisputeOverflow ==
    \E purchase_id \in PurchaseIds, winner \in {B1, S1} :
       Apply("resolve_dispute", Admin, purchase_id, <<winner, <<B1, S1, P1>>>>,
             Dispatch(Prog, resolve_dispute(Prog, Admin, purchase_id, winner,
                                            B1, S1, P1)),
             IF winner = B1 THEN "refund" ELSE "payout")

NextOverflow ==
    \/ CreateTradeOverflow
    \/ BuyTradeOverflow
    \/ ConfirmDeliveryOverflow
    \/ RaiseDisputeOverflow
    \/ ResolveDisputeOverflow

SpecOverflow == InitOverflow /\ [][NextOverflow]_vars

\* ------------------------------------------------ full-lists specification
\* One trade with stock for more than MAX_PURCHASE_IDS purchases, bought one
\* unit at a time by B1, and by P1 for the first purchases, until the
\* purchase id lists of the trade and of B1 are full and beyond.
CapPurchaseIds == 1..MaxCapPurchases
CapProductCost == 1
CapTotalQuantity == MaxCapPurchases + 1

InitCap ==
    /\ global = [admin |-> Admin, trade_counter |-> 0, purchase_counter |-> 0]
    /\ trades = [k \in TradeKeys |-> NoTrade]
    /\ purchases = [p \in CapPurchaseIds |-> NoPurchase]
    /\ buyers = [b \in Identities |-> NoAccount]
    /\ bal = InitBal
    /\ settlements = [p \in CapPurchaseIds |-> <<>>]
    /\ last = [op |-> "initialize", caller |-> Admin, id |-> 0,
               arg |-> <<>>, xfers |-> <<>>]

CreateTradeCap ==
    /\ global.trade_counter < MaxTrades
    /\ Apply("create_trade", Admin, CapProductCost,
             <<S1, <<<<P1>>, <<0>>>>, CapTotalQuantity>>,
             Dispatch(Prog, create_trade(Prog, Admin, S1, CapProductCost,
                                         <<P1>>, <<0>>, CapTotalQuantity)),
             "none")

BuyTradeCap ==
    /\ global.purchase_counter < MaxCapPurchases
    /\ \E buyer \in IF global.purchase_counter < MaxPurchases THEN {B1, P1} ELSE {B1} :
         Apply("buy_trade", buyer, global.purchase_counter + 1,
               <<CapProductCost, 1, P1>>,
               Dispatch(Prog, buy_trade(Prog, buyer, CapProductCost, 1, P1)),
               "none")

NextCap ==
    \/ CreateTradeCap
    \/ BuyTradeCap

SpecCap == InitCap /\ [][NextCap]_vars

\* --------------------------------------------------- scenario specification
\* The workflow of test_complete_workflow_with_dispute_main: a trade of 10
\* units at 1000 with one provider at 100, purchases of 3 or 4 units by B1,
\* and the instructions that dispute and settle them.
ScenarioProductCost == 1000
ScenarioLogisticsCost == 100
ScenarioTotalQuantity == 10
ScenarioQuantities == {3, 4}
ScenarioBal == [a \in TokenAccounts |-> IF a = B1 THEN 8000 ELSE 0]

InitScenario ==
    /\ global = [admin |-> Admin, trade_counter |-> 0, purchase_counter |-> 0]
    /\ trades = [k \in TradeKeys |-> NoTrade]
    /\ purchases = [p \in PurchaseIds |-> NoPurchase]
    /\ buyers = [b \in Identities |-> NoAccount]
    /\ bal = ScenarioBal
    /\ settlements = [p \in PurchaseIds |-> <<>>]
    /\ last = [op |-> "initialize", caller |-> Admin, id |-> 0,
               arg |-> <<>>, xfers |-> <<>>]

CreateTradeScenario ==
    /\ global.trade_counter < MaxTrades
    /\ Apply("create_trade", Admin, ScenarioProductCost,
             <<S1, <<<<P1>>, <<ScenarioLogisticsCost>>>>, ScenarioTotalQuantity>>,
             Dispatch(Prog, create_trade(Prog, Admin, S1, ScenarioProductCost, <<P1>>,
                                         <<ScenarioLogisticsCost>>,
                                         ScenarioTotalQuantity)),
             "none")

BuyTradeScenario ==
    /\ global.purchase_counter < MaxPurchases
    /\ \E quantity \in ScenarioQuantities :
         Apply("buy_trade", B1, global.purchase_counter + 1,
               <<ScenarioProductCost, quantity, P1>>,
               Dispatch(Prog, buy_trade(Prog, B1, ScenarioProductCost, quantity, P1)),
               "none")

NextScenario ==
    \/ CreateTradeScenario
    \/ BuyTradeScenario
    \/ RaiseDispute
    \/ ResolveDispute
    \/ ConfirmDeliveryAndPurchase

SpecScenario == InitScenario /\ [][NextScenario]_vars

ExistingTrades == {k \in TradeKeys : trades[k] # NoTrade}
ExistingPurchases == {p \in PurchaseIds : purchases[p] # NoPurchase}

\* a step in which an instruction committed
Committed == last' # last

RECURSIVE SumQuantity(_)
SumQuantity(S) ==
    IF S = {} THEN 0
    ELSE LET p == CHOOSE x \in S : TRUE
         IN purchases[p].quantity + SumQuantity(S \ {p})

\* refunded: settled by cancel or by a dispute the buyer won
Refunded(p) == settlements[p] # <<>> /\ settlements[p][1] \in {"cancel", "refund"}

NotRefundedOf(k) ==
    {p \in ExistingPurchases : purchases[p].trade_id = k /\ ~Refunded(p)}

\* C1 Inventory conservation: every trade's remaining_quantity equals its
\* total_quantity minus the quantities of its purchases that have not been
\* refunded, and so lies between 0 and total_quantity.
C1_InventoryConservation ==
    \A k \in ExistingTrades :
        /\ trades[k].remaining_quantity =
               trades[k].total_quantity - SumQuantity(NotRefundedOf(k))
        /\ 0 <= trades[k].remaining_quantity
        /\ trades[k].remaining_quantity <= trades[k].total_quantity

\* a trade with a refunded purchase beside one that still holds stock
C1_Witness ==
    \E k \in ExistingTrades, p, q \in ExistingPurchases :
        /\ purchases[p].trade_id = k /\ purchases[q].trade_id = k
        /\ Refunded(p) /\ ~Refunded(q)
        /\ trades[k].remaining_quantity < trades[k].total_quantity

\* arguments ranged over when a claim speaks of every call
AnyCaller == Identities
AnyAccount == DestAccounts
AnyWinner == Identities

ConfirmCall(c, p, a1, a2) ==
    Dispatch(Prog, confirm_delivery_and_purchase(Prog, c, p, a1, a2))
CancelCall(c, p, a) == Dispatch(Prog, cancel_purchase(Prog, c, p, a))
ResolveCall(c, p, w, a1, a2, a3) ==
    Dispatch(Prog, resolve_dispute(Prog, c, p, w, a1, a2, a3))
RaiseCall(c, p) == Dispatch(Prog, raise_dispute(Prog, c, p))

\* r is a rejection that moved nothing
RejectedUnchanged(r) == r.res # "Ok" /\ r.st = Prog /\ r.xfers = <<>>

\* C2 Settlement at most once: no purchase is settled by more than one
\* successful call, and on a settled purchase every confirm_delivery,
\* cancel and resolve_dispute (either winner side) is rejected and moves no
\* funds.
C2_SettledAtMostOnce ==
    \A p \in ExistingPurchases :
        /\ Len(settlements[p]) <= 1
        /\ purchases[p].settled <=> Len(settlements[p]) = 1
        /\ purchases[p].settled =>
             /\ \A c \in AnyCaller, a1, a2 \in AnyAccount :
                   RejectedUnchanged(ConfirmCall(c, p, a1, a2))
             /\ \A c \in AnyCaller, a \in AnyAccount :
                   RejectedUnchanged(CancelCall(c, p, a))
             /\ \A c \in AnyCaller, w \in AnyWinner, a1, a2 \in AnyAccount :
                   RejectedUnchanged(ResolveCall(c, p, w, a1, a1, a2))

\* every kind of settlement has happened to some purchase or other, and a
\* settled purchase stands beside an unsettled one
C2_Witness ==
    /\ \E p \in ExistingPurchases : settlements[p] = <<"payout">>
    /\ \E p \in ExistingPurchases : ~purchases[p].settled /\ purchases[p].disputed

\* C3 Activation invariant: every trade has active = (remaining_quantity > 0).
C3_ActivationInvariant ==
    \A k \in ExistingTrades :
        trades[k].active <=> (trades[k].remaining_quantity > 0)

\* a trade that was sold out and has just been reactivated by a cancel
C3_Witness ==
    /\ last.op = "cancel_purchase"
    /\ \E k \in ExistingTrades :
          /\ trades[k].active
          /\ \E p \in ExistingPurchases :
                /\ purchases[p].trade_id = k
                /\ purchases[p].quantity = trades[k].total_quantity
                /\ p = last.id

\* the FeeCalculator of the design: 250 basis points, floored
SpecProductFee(unit_cost, quantity) == (unit_cost * 250 * quantity) \div 10000
SpecLogisticsFee(total_logistics_cost) == (total_logistics_cost * 250) \div 10000

\* the committed step settled purchase last'.id by paying seller and provider
PayoutStep ==
    /\ Committed
    /\ \/ last'.op = "confirm_delivery_and_purchase"
       \/ /\ last'.op = "resolve_dispute"
          /\ last'.arg[1] # purchases[last'.id].buyer

\* C4 Fee conservation: in every settlement that pays seller and provider,
\* what leaves escrow (sellerAmount + logisticsAmount) plus productFee plus
\* logisticsFee equals the purchase's total_amount.
C4_FeeConservation ==
    [][PayoutStep =>
         LET p == purchases[last'.id]
             t == trades[p.trade_id]
             paid == bal[Escrow] - bal'[Escrow]
         IN /\ Len(last'.xfers) = 2
            /\ paid = last'.xfers[1][3] + last'.xfers[2][3]
            /\ paid + SpecProductFee(t.product_cost, p.quantity)
                    + SpecLogisticsFee(p.logistics_cost) = p.total_amount]_vars

\* a dispute settled for the seller where both fees were rounded down
C4_Witness ==
    /\ last.op = "resolve_dispute"
    /\ settlements[last.id] = <<"payout">>
    /\ LET p == purchases[last.id] IN
       /\ (trades[p.trade_id].product_cost * 250 * p.quantity) % 10000 # 0
       /\ (p.logistics_cost * 250) % 10000 # 0

Move(b, from, to, amount) ==
    [b EXCEPT ![from] = @ - amount, ![to] = @ + amount]

\* C5 Payout destinations: a successful confirm_delivery credits the trade's
\* seller with sellerAmount and the chosen provider with logisticsAmount, out
\* of escrow, and nobody else; the two fees stay in escrow.
C5_PayoutDestinations ==
    [][Committed /\ last'.op = "confirm_delivery_and_purchase" =>
         LET p == purchases[last'.id]
             t == trades[p.trade_id]
             sellerAmount == t.product_cost * p.quantity
                               - SpecProductFee(t.product_cost, p.quantity)
             logisticsAmount == p.logistics_cost - SpecLogisticsFee(p.logistics_cost)
         IN bal' = Move(Move(bal, Escrow, t.seller, sellerAmount),
                        Escrow, p.chosen_logistics_provider, logisticsAmount)]_vars

BuyCall(c, k, q, lp) == Dispatch(Prog, buy_trade(Prog, c, k, q, lp))
WithdrawCall(c, a) == Dispatch(Prog, withdraw_escrow_fees(Prog, c, a))
CreateCall(c, s, pc, ll, tq) ==
    Dispatch(Prog, create_trade(Prog, c, s, pc, ll[1], ll[2], tq))

\* r is a failed ledger transfer that left nothing behind
FailedClean(r) == r.res = "TransferFailed" => r.st = Prog /\ r.xfers = <<>>

RejectionClean(raw) ==
    raw.res \notin {"Ok", "TransferFailed"} =>
        /\ raw.st = Prog
        /\ Dispatch(Prog, raw).st = Prog
        /\ Dispatch(Prog, raw).xfers = <<>>

\* C7 Rejection leaves state untouched: every create_trade, buy,
\* confirm_delivery, raise_dispute, resolve_dispute, cancel or withdraw_fees
\* that is rejected leaves every trade, purchase, buyer profile, counter and
\* balance as it was.
C7_RejectionUntouched ==
    /\ \A c \in AnyCaller, s \in Sellers, pc \in ProductCosts,
          ll \in LogisticsLists, tq \in TotalQuantities :
          RejectionClean(create_trade(Prog, c, s, pc, ll[1], ll[2], tq))
    /\ \A c \in AnyCaller, k \in TradeKeyArgs, q \in Quantities, lp \in ProviderArgs :
          RejectionClean(buy_trade(Prog, c, k, q, lp))
    /\ \A c \in AnyCaller, a \in AnyAccount \cup {Admin} :
          RejectionClean(withdraw_escrow_fees(Prog, c, a))
    /\ \A p \in PurchaseIds :
          /\ \A c \in AnyCaller, a1, a2 \in AnyAccount :
                RejectionClean(confirm_delivery_and_purchase(Prog, c, p, a1, a2))
          /\ \A c \in AnyCaller : RejectionClean(raise_dispute(Prog, c, p))
          /\ \A c \in AnyCaller, a \in AnyAccount :
                RejectionClean(cancel_purchase(Prog, c, p, a))
          /\ \A c \in AnyCaller, w \in AnyWinner, a1, a2 \in AnyAccount :
                RejectionClean(resolve_dispute(Prog, c, p, w, a1, a1, a2))

\* a sold-out trade with a settled purchase and a disputed one: buy,
\* confirm_delivery, raise_dispute, resolve_dispute and cancel each meet a
\* precondition they reject
C7_Witness ==
    \E p, q \in ExistingPurchases :
        /\ purchases[p].settled /\ ~purchases[p].disputed
        /\ purchases[q].disputed /\ ~purchases[q].settled
        /\ BuyCall(B1, purchases[p].trade_id, 1, P1).res = "TradeInactive"
        /\ RaiseCall(B1, p).res = "AlreadyConfirmed"
        /\ ResolveCall(Admin, p, B1, B1, B1, B1).res = "NotDisputed"
        /\ CancelCall(purchases[q].buyer, q, B1).res = "Disputed"
        /\ ConfirmCall(S1, q, S1, P1).res = "NotAuthorized"
        /\ CreateCall(Admin, S1, 1010, <<<<>>, <<100>>>>, 2).res = "AccountAlreadyInUse"

\* p is under dispute and not settled
Suspended(p) ==
    purchases[p] # NoPurchase /\ purchases[p].disputed /\ ~purchases[p].settled

\* C8 A dispute suspends buyer-side settlement: while a purchase is disputed
\* and unsettled, confirm_delivery and cancel by its buyer are rejected and
\* move nothing, and only a resolve_dispute by the admin settles it.
C8_DisputeSuspends ==
    /\ [](\A p \in PurchaseIds : Suspended(p) =>
            /\ \A a1, a2 \in AnyAccount :
                  LET r == ConfirmCall(purchases[p].buyer, p, a1, a2)
                  IN r.res = "Disputed" /\ r.st = Prog
            /\ \A a \in AnyAccount :
                  LET r == CancelCall(purchases[p].buyer, p, a)
                  IN r.res = "Disputed" /\ r.st = Prog)
    /\ [][\A p \in PurchaseIds : Suspended(p) /\ purchases'[p].settled =>
            /\ last'.op = "resolve_dispute"
            /\ last'.id = p
            /\ last'.caller = global.admin]_vars

\* a disputed purchase has just been settled by the admin
C8_Witness ==
    /\ last.op = "resolve_dispute"
    /\ last.caller = Admin
    /\ purchases[last.id].disputed
    /\ purchases[last.id].settled

\* C9 resolve_dispute won by the buyer: both flags set, exactly total_amount
\* moved from escrow to the buyer and to nobody else, remaining_quantity
\* raised by the purchase's quantity and the trade active.
C9_BuyerWinsRefund ==
    [][Committed /\ last'.op = "resolve_dispute"
         /\ last'.arg[1] = purchases[last'.id].buyer =>
         LET p == purchases[last'.id]
             k == p.trade_id
         IN /\ purchases'[last'.id].delivered_and_confirmed
            /\ purchases'[last'.id].settled
            /\ bal' = Move(bal, Escrow, p.buyer, p.total_amount)
            /\ trades'[k].remaining_quantity
                   = trades[k].remaining_quantity + p.quantity
            /\ trades'[k].active]_vars

\* balances after the two legs of confirm_delivery for purchase p of trade t,
\* paid to accounts a1 (seller leg) and a2 (logistics leg)
ConfirmPayoutBal(b, t, p, a1, a2) ==
    Move(Move(b, Escrow, a1, ConfirmSellerAmount(t, p)),
         Escrow, a2, ConfirmLogisticsAmount(p))

\* the step resolved a dispute for winner last'.arg[1], the seller or the
\* provider, exactly as confirm_delivery would have paid, inventory untouched
ResolvedLikeConfirm ==
    LET p == purchases[last'.id]
        t == trades[p.trade_id]
    IN /\ Len(last'.xfers) = 2
       /\ bal' = ConfirmPayoutBal(bal, t, p, last'.arg[2][2], last'.arg[2][3])
       /\ last'.xfers[1][3] = ConfirmSellerAmount(t, p)
       /\ last'.xfers[2][3] = ConfirmLogisticsAmount(p)
       /\ trades' = trades

WinnerSellerOrProvider ==
    /\ Committed
    /\ last'.op = "resolve_dispute"
    /\ \/ last'.arg[1] = trades[purchases[last'.id].trade_id].seller
       \/ last'.arg[1] = purchases[last'.id].chosen_logistics_provider

\* C10 as stated: resolve_dispute won by the seller or by the chosen provider
\* pays what confirm_delivery would have paid and leaves the trade alone.
C10_AsStated == [][WinnerSellerOrProvider => ResolvedLikeConfirm]_vars

\* C10 resolve_dispute won by the seller or by the chosen provider, the
\* winner not being the purchase's buyer, makes the two transfers of
\* confirm_delivery (same accounts, same amounts, fees retained) whichever of
\* the two won, and leaves remaining_quantity and active unchanged.
C10_ResolveLikeConfirm ==
    [][WinnerSellerOrProvider /\ last'.arg[1] # purchases[last'.id].buyer
          => ResolvedLikeConfirm]_vars

\* a dispute has been resolved for the provider, who is not the buyer
C10_Witness ==
    /\ last.op = "resolve_dispute"
    /\ last.arg[1] = purchases[last.id].chosen_logistics_provider
    /\ last.arg[1] # purchases[last.id].buyer
    /\ settlements[last.id] = <<"payout">>

\* p can be cancelled by c: c is its buyer and none of its flags is set
Cancellable(p, c) ==
    /\ purchases[p] # NoPurchase
    /\ c = purchases[p].buyer
    /\ ~purchases[p].delivered_and_confirmed
    /\ ~purchases[p].disputed
    /\ ~purchases[p].settled

\* C11 cancel: called by the buyer on a purchase with no flag set, it sets
\* delivered_and_confirmed and settled, moves exactly total_amount from escrow
\* to the buyer, and adds the purchase's quantity back to remaining_quantity,
\* the trade being active afterwards; any other call is rejected.
C11_CancelRefund ==
    /\ [](\A p \in ExistingPurchases, c \in AnyCaller, a \in AnyAccount :
            IF Cancellable(p, c)
            THEN CancelCall(c, p, c).res = "Ok"
            ELSE RejectedUnchanged(CancelCall(c, p, a)))
    /\ [][Committed /\ last'.op = "cancel_purchase" =>
            LET p == purchases[last'.id]
                k == p.trade_id
            IN /\ Cancellable(last'.id, last'.caller)
               /\ purchases'[last'.id] =
                      [p EXCEPT !.delivered_and_confirmed = TRUE, !.settled = TRUE]
               /\ bal' = Move(bal, Escrow, p.buyer, p.total_amount)
               /\ trades'[k].remaining_quantity
                      = trades[k].remaining_quantity + p.quantity
               /\ trades'[k].active]_vars

\* positions of provider lp among the logistics options of trade t
OptionsOf(t, lp) ==
    {i \in 1..Len(t.logistics_providers) : t.logistics_providers[i] = lp}

\* the unit cost paired with the first option of t that names lp
SpecUnitCost(t, lp) ==
    LET first == CHOOSE i \in OptionsOf(t, lp) : \A j \in OptionsOf(t, lp) : i <= j
    IN t.logistics_costs[first]

\* C12 buy postcondition: a successful buy creates the purchase numbered
\* purchase_counter + 1 with the given buyer, quantity and provider, the
\* logistics cost and total amount computed from the first matching option,
\* no flag set; it moves total_amount from the buyer to escrow and lowers
\* remaining_quantity by quantity.
C12_BuyPostcondition ==
    [][Committed /\ last'.op = "buy_trade" =>
         LET id == last'.id
             buyer == last'.caller
             k == last'.arg[1]
             quantity == last'.arg[2]
             lp == last'.arg[3]
             unit_cost == SpecUnitCost(trades[k], lp)
             total_amount == (trades[k].product_cost + unit_cost) * quantity
             p == purchases'[id]
         IN /\ id = global.purchase_counter + 1
            /\ purchases[id] = NoPurchase
            /\ p.purchase_id = id
            /\ p.buyer = buyer
            /\ p.quantity = quantity
            /\ p.chosen_logistics_provider = lp
            /\ p.logistics_cost = unit_cost * quantity
            /\ p.total_amount = total_amount
            /\ ~p.delivered_and_confirmed /\ ~p.disputed /\ ~p.settled
            /\ bal' = Move(bal, buyer, Escrow, total_amount)
            /\ last'.xfers = << <<buyer, Escrow, total_amount>> >>
            /\ trades'[k].remaining_quantity
                   = trades[k].remaining_quantity - quantity]_vars

\* a purchase of two units from a provider the trade lists twice, at 100 and
\* then at 9 per unit
C12_Witness ==
    /\ last.op = "buy_trade"
    /\ last.arg[2] = 2
    /\ Cardinality(OptionsOf(trades[last.arg[1]], last.arg[3])) = 2
    /\ purchases[last.id].logistics_cost = 200

\* checks is a sequence of <<holds, error>>: the error of the first check that
\* does not hold, "Ok" when all hold
FirstFailing(checks) ==
    LET bad == {i \in 1..Len(checks) : ~checks[i][1]} IN
    IF bad = {} THEN "Ok"
    ELSE checks[CHOOSE i \in bad : \A j \in bad : i <= j][2]

\* the preconditions of buy in the order the design gives them
BuyChecks(t, c, q, lp) ==
    << <<q > 0, "InvalidQuantity">>,
       <<t.active, "TradeInactive">>,
       <<t.remaining_quantity >= q, "InsufficientQuantity">>,
       <<c # t.seller, "BuyerIsSeller">>,
       <<OptionsOf(t, lp) # {}, "InvalidLogisticsProvider">> >>

BuyQuantities == Quantities \cup {3}

\* C13 buy rejection: a buy is rejected with the error of the first failing
\* check in the order quantity > 0, trade active, enough remaining quantity,
\* buyer not the seller, provider among the options; it succeeds only when all
\* five hold.
C13_BuyRejectionOrder ==
    \A k \in ExistingTrades, c \in AnyCaller, q \in BuyQuantities, lp \in AnyCaller :
        LET expected == FirstFailing(BuyChecks(trades[k], c, q, lp))
            r == BuyCall(c, k, q, lp)
        IN /\ expected # "Ok" => r.res = expected /\ RejectedUnchanged(r)
           /\ expected = "Ok" => r.res \in {"Ok", "TransferFailed"}
           /\ r.res = "Ok" => expected = "Ok"

\* a trade with one unit left: the seller asking for nothing, for too much and
\* for one unit through a provider the trade does not list, and a buyer naming
\* that provider
C13_Witness ==
    \E k \in ExistingTrades :
        /\ trades[k].active /\ trades[k].remaining_quantity = 1
        /\ BuyCall(trades[k].seller, k, 0, B1).res = "InvalidQuantity"
        /\ BuyCall(trades[k].seller, k, 2, B1).res = "InsufficientQuantity"
        /\ BuyCall(trades[k].seller, k, 1, B1).res = "BuyerIsSeller"
        /\ BuyCall(B1, k, 1, B1).res = "InvalidLogisticsProvider"
        /\ BuyCall(P1, k, 1, P1).res = "Ok"

\* the preconditions of confirm_delivery in the order the design gives them
ConfirmChecks(p, c) ==
    << <<c = p.buyer, "NotAuthorized">>,
       <<~p.delivered_and_confirmed, "AlreadyConfirmed">>,
       <<~p.disputed, "Disputed">>,
       <<~p.settled, "AlreadySettled">> >>

\* C14 confirm_delivery guards: it succeeds only for the purchase's buyer on a
\* purchase with no flag set; otherwise it is rejected with the first failing
\* check in the order NotAuthorized, AlreadyConfirmed, Disputed,
\* AlreadySettled, so anyone but the buyer gets NotAuthorized whatever the
\* flags.
C14_ConfirmGuards ==
    \A p \in ExistingPurchases, c \in AnyCaller, a1, a2 \in AnyAccount :
        LET expected == FirstFailing(ConfirmChecks(purchases[p], c))
            r == ConfirmCall(c, p, a1, a2)
        IN /\ expected # "Ok" => r.res = expected /\ RejectedUnchanged(r)
           /\ expected = "Ok" => r.res \in {"Ok", "TransferFailed"}
           /\ r.res = "Ok" => expected = "Ok"
           /\ c # purchases[p].buyer => r.res = "NotAuthorized"

\* a purchase settled through a dispute beside one still under dispute: the
\* buyer and a stranger call confirm_delivery on each
C14_Witness ==
    \E p, q \in ExistingPurchases :
        /\ purchases[p].disputed /\ purchases[p].settled
        /\ Suspended(q)
        /\ ConfirmCall(purchases[p].buyer, p, S1, P1).res = "AlreadyConfirmed"
        /\ ConfirmCall(S1, p, S1, P1).res = "NotAuthorized"
        /\ ConfirmCall(purchases[q].buyer, q, S1, P1).res = "Disputed"
        /\ ConfirmCall(S1, q, S1, P1).res = "NotAuthorized"

\* C15 raise_dispute: whoever calls it, on a purchase neither confirmed nor
\* disputed it succeeds and sets disputed, changing nothing else (no other
\* purchase field, no trade, counter or balance); it is rejected with
\* AlreadyConfirmed on a confirmed purchase, else AlreadyDisputed on a
\* disputed one.
C15_RaiseDisputeFrame ==
    \A p \in ExistingPurchases, c \in AnyCaller :
        LET r == RaiseCall(c, p) IN
        IF purchases[p].delivered_and_confirmed
        THEN r.res = "AlreadyConfirmed" /\ RejectedUnchanged(r)
        ELSE IF purchases[p].disputed
        THEN r.res = "AlreadyDisputed" /\ RejectedUnchanged(r)
        ELSE /\ r.res = "Ok"
             /\ r.xfers = <<>>
             /\ r.st = [Prog EXCEPT !.purchases[p].disputed = TRUE]

\* a dispute has just been raised by someone who is not the purchase's buyer,
\* while another purchase is still open to one from the admin or the seller
C15_Witness ==
    /\ last.op = "raise_dispute"
    /\ last.caller # purchases[last.id].buyer
    /\ purchases[last.id].disputed
    /\ \E q \in ExistingPurchases :
          /\ ~purchases[q].disputed /\ ~purchases[q].delivered_and_confirmed
          /\ RaiseCall(Admin, q).res = "Ok"
          /\ RaiseCall(S1, q).res = "Ok"

\* the preconditions of resolve_dispute in the order the design gives them
ResolveChecks(p, t, w) ==
    << <<p.disputed, "NotDisputed">>,
       <<~p.settled, "AlreadySettled">>,
       <<w \in {p.buyer, t.seller, p.chosen_logistics_provider}, "InvalidWinner">> >>

\* C16 resolve_dispute guards: a caller who is not the admin is rejected;
\* the admin is rejected with NotDisputed on a purchase not under dispute
\* (settled or not), else AlreadySettled on a settled one, else InvalidWinner
\* when the winner is none of buyer, seller and chosen provider; it succeeds
\* only when every check passes.
C16_ResolveGuards ==
    \A p \in ExistingPurchases, c \in AnyCaller, w \in AnyWinner, a1, a2 \in AnyAccount :
        LET expected == FirstFailing(ResolveChecks(purchases[p],
                                                   trades[purchases[p].trade_id], w))
            r == ResolveCall(c, p, w, a1, a1, a2)
        IN IF c # global.admin THEN RejectedUnchanged(r)
           ELSE /\ expected # "Ok" => r.res = expected /\ RejectedUnchanged(r)
                /\ expected = "Ok" => r.res \in {"Ok", "TransferFailed"}
                /\ r.res = "Ok" => expected = "Ok"

\* a purchase settled by cancel, never disputed, beside one under dispute: the
\* admin resolving the first, resolving the second for a stranger, and the
\* buyer trying to resolve it
C16_Witness ==
    \E p, q \in ExistingPurchases :
        /\ settlements[p] = <<"cancel">>
        /\ Suspended(q)
        /\ ResolveCall(Admin, p, purchases[p].buyer, B1, B1, B1).res = "NotDisputed"
        /\ ResolveCall(Admin, q, Admin, B1, B1, B1).res = "InvalidWinner"
        /\ ResolveCall(purchases[q].buyer, q, purchases[q].buyer, B1, B1, B1).res
               = "ConstraintHasOne"
        /\ ResolveCall(Admin, q, S1, S1, S1, P1).res = "Ok"

\* C17 withdraw_fees: called by the admin with a positive escrow balance it
\* moves the whole balance from escrow to the admin, leaving escrow at 0; with
\* an empty escrow it is rejected with NoFeesToWithdraw; anyone else is
\* rejected; no trade or purchase ever changes.
C17_WithdrawFees ==
    \A c \in AnyCaller :
        LET r == WithdrawCall(c, Admin) IN
        /\ r.st.trades = trades /\ r.st.purchases = purchases
        /\ IF c # global.admin THEN RejectedUnchanged(r)
           ELSE IF bal[Escrow] = 0
           THEN r.res = "NoFeesToWithdraw" /\ RejectedUnchanged(r)
           ELSE /\ r.res = "Ok"
                /\ r.st.bal = Move(bal, Escrow, Admin, bal[Escrow])
                /\ r.st.bal[Escrow] = 0
                /\ r.xfers = << <<Escrow, Admin, bal[Escrow]>> >>

\* f is num / den rounded down
IsFloor(f, num, den) == f * den <= num /\ num < (f + 1) * den

\* the four amounts of a payout are the design's: each fee the floor of 2.5%
\* of its base, each amount its base less its fee
FeesAsDesigned(unit_product_cost, quantity, total_logistics_cost, productFee, sellerAmount, logisticsFee, logisticsAmount) ==
    /\ IsFloor(productFee, unit_product_cost * 250 * quantity, 10000)
    /\ IsFloor(logisticsFee, total_logistics_cost * 250, 10000)
    /\ sellerAmount = unit_product_cost * quantity - productFee
    /\ logisticsAmount = total_logistics_cost - logisticsFee

\* C18 Fee arithmetic: productFee = floor(unit_product_cost * 250 * quantity
\* / 10000), logisticsFee = floor(total_logistics_cost * 250 / 10000),
\* sellerAmount and logisticsAmount are the bases less these fees, each fee
\* floored on its own; unit cost 1000, logistics unit 100 and quantity 3 give
\* 3300, 75, 2925, 7 and 293.
C18_FeeArithmetic ==
    /\ [](\A id \in ExistingPurchases :
            LET p == purchases[id]
                t == trades[p.trade_id]
            IN /\ FeesAsDesigned(t.product_cost, p.quantity, p.logistics_cost,
                                 ConfirmProductEscrowFee(t, p), ConfirmSellerAmount(t, p),
                                 ConfirmLogisticsEscrowFee(p), ConfirmLogisticsAmount(p))
               /\ FeesAsDesigned(t.product_cost, p.quantity, p.logistics_cost,
                                 ResolveProductEscrowFee(t, p), ResolveSellerAmount(t, p),
                                 ResolveLogisticsEscrowFee(p), ResolveLogisticsPayout(p))
               /\ (t.product_cost = 1000 /\ t.logistics_costs = <<100>> /\ p.quantity = 3)
                     => /\ p.total_amount = 3300
                        /\ ConfirmProductEscrowFee(t, p) = 75
                        /\ ConfirmSellerAmount(t, p) = 2925
                        /\ ConfirmLogisticsEscrowFee(p) = 7
                        /\ ConfirmLogisticsAmount(p) = 293)
    /\ [][PayoutStep =>
            LET p == purchases[last'.id]
                t == trades[p.trade_id]
                sellerAmount == last'.xfers[1][3]
                logisticsAmount == last'.xfers[2][3]
            IN FeesAsDesigned(t.product_cost, p.quantity, p.logistics_cost,
                              t.product_cost * p.quantity - sellerAmount, sellerAmount,
                              p.logistics_cost - logisticsAmount, logisticsAmount)]_vars

\* the purchase of the worked example has just been confirmed: 2925 to the
\* seller leg and 293 to the logistics leg out of 3300
C18_Witness ==
    /\ last.op = "confirm_delivery_and_purchase"
    /\ purchases[last.id].total_amount = 3300
    /\ purchases[last.id].quantity = 3
    /\ last.xfers[1][3] = 2925
    /\ last.xfers[2][3] = 293

\* the validations of create_trade in the order the design gives them
CreateChecks(ll, tq) ==
    << <<Len(ll[1]) = Len(ll[2]), "MismatchedArrays">>,
       <<Len(ll[1]) >= 1, "NoLogisticsProviders">>,
       <<Len(ll[1]) <= 10, "TooManyProviders">>,
       <<tq > 0, "InvalidQuantity">> >>

\* C19 create_trade validation order: create_trade is rejected with the first
\* failing check in the order equal lengths, at least one provider, at most 10
\* providers, total_quantity > 0; an empty provider list with one cost gives
\* MismatchedArrays and 11 matched providers with total_quantity 0 give
\* TooManyProviders; a rejection creates no trade and leaves trade_counter.
C19_CreateValidationOrder ==
    \A s \in Sellers, pc \in ProductCosts, ll \in LogisticsLists, tq \in TotalQuantities :
        LET expected == FirstFailing(CreateChecks(ll, tq))
            r == CreateCall(global.admin, s, pc, ll, tq)
        IN /\ expected # "Ok" =>
                /\ r.res = expected
                /\ r.st.trades = trades
                /\ r.st.global.trade_counter = global.trade_counter
           /\ ll = <<<<>>, <<100>>>> => r.res = "MismatchedArrays"
           /\ (Len(ll[1]) = 11 /\ Len(ll[2]) = 11 /\ tq = 0) => r.res = "TooManyProviders"

\* C20 create_trade postcondition: a successful create_trade raises
\* trade_counter by exactly 1 and creates one trade whose trade_id is the new
\* counter value, with remaining_quantity = total_quantity, active, no
\* purchase ids, and the seller, provider and cost lists and unit product cost
\* it was given; no balance, purchase or purchase_counter changes.
C20_CreatePostcondition ==
    [][Committed /\ last'.op = "create_trade" =>
         \E k \in TradeKeys \ ExistingTrades :
            LET t == trades'[k] IN
            /\ global'.trade_counter = global.trade_counter + 1
            /\ trades' = [trades EXCEPT ![k] = t]
            /\ t # NoTrade
            /\ t.trade_id = global'.trade_counter
            /\ t.total_quantity = last'.arg[3]
            /\ t.remaining_quantity = t.total_quantity
            /\ t.active
            /\ t.purchase_ids = <<>>
            /\ t.seller = last'.arg[1]
            /\ t.logistics_providers = last'.arg[2][1]
            /\ t.logistics_costs = last'.arg[2][2]
            /\ t.product_cost = last'.id
            /\ bal' = bal
            /\ purchases' = purchases
            /\ buyers' = buyers
            /\ global'.purchase_counter = global.purchase_counter
            /\ global'.admin = global.admin]_vars

\* a second trade has just been created while a purchase of the first holds
\* funds in escrow
C20_Witness ==
    /\ last.op = "create_trade"
    /\ global.trade_counter = 2
    /\ trades[last.id].trade_id = 2
    /\ global.purchase_counter >= 1
    /\ bal[Escrow] > 0

\* the result r of an instruction leaves purchase p as it is
KeepsPurchase(r, p) == r.st.purchases[p] = purchases[p]

\* C21 Settled is terminal: once a purchase is settled no instruction, by any
\* caller, changes any of its fields again, and raise_dispute never succeeds
\* on it.
C21_SettledTerminal ==
    /\ [](\A p \in ExistingPurchases : purchases[p].settled =>
            /\ \A c \in AnyCaller : RejectedUnchanged(RaiseCall(c, p))
            /\ \A c \in AnyCaller, q \in PurchaseIds :
                  /\ KeepsPurchase(RaiseCall(c, q), p)
                  /\ \A a \in AnyAccount : KeepsPurchase(CancelCall(c, q, a), p)
                  /\ \A a1, a2 \in AnyAccount :
                        KeepsPurchase(ConfirmCall(c, q, a1, a2), p)
                  /\ \A w \in AnyWinner, a1, a2 \in AnyAccount :
                        KeepsPurchase(ResolveCall(c, q, w, a1, a1, a2), p)
            /\ \A c \in AnyCaller, a \in AnyAccount :
                  KeepsPurchase(WithdrawCall(c, a), p)
            /\ \A c \in AnyCaller, k \in TradeKeyArgs, q \in Quantities, lp \in ProviderArgs :
                  KeepsPurchase(BuyCall(c, k, q, lp), p))
    /\ [][\A p \in ExistingPurchases : purchases[p].settled =>
            purchases'[p] = purchases[p]]_vars

\* a purchase settled by confirm_delivery, never disputed, and an instruction
\* on another purchase committed after it
C21_Witness ==
    \E p \in ExistingPurchases :
        /\ settlements[p] = <<"confirm">>
        /\ ~purchases[p].disputed
        /\ last.id # p
        /\ last.op \in {"raise_dispute", "cancel_purchase", "resolve_dispute"}
        /\ RaiseCall(purchases[p].buyer, p).res = "AlreadyConfirmed"

\* C22 Global counters: the admin never changes; trade_counter and
\* purchase_counter start at 0 and in every step stay equal or rise by exactly
\* 1, trade_counter only in a successful create_trade and purchase_counter
\* only in a successful buy.
C22_GlobalCounters ==
    /\ global.trade_counter = 0 /\ global.purchase_counter = 0
    /\ [][/\ global'.admin = global.admin
          /\ global'.trade_counter \in {global.trade_counter, global.trade_counter + 1}
          /\ global'.purchase_counter
                 \in {global.purchase_counter, global.purchase_counter + 1}
          /\ global'.trade_counter # global.trade_counter
                 => Committed /\ last'.op = "create_trade"
          /\ global'.purchase_counter # global.purchase_counter
                 => Committed /\ last'.op = "buy_trade"
          /\ (Committed /\ last'.op = "create_trade")
                 => global'.trade_counter = global.trade_counter + 1
          /\ (Committed /\ last'.op = "buy_trade")
                 => global'.purchase_counter = global.purchase_counter + 1]_vars

\* both counters have risen, a cancel has committed since, leaving them, and
\* a second initialize by anyone is turned down
C22_Witness ==
    /\ global.trade_counter = 1
    /\ global.purchase_counter = 2
    /\ last.op = "cancel_purchase"
    /\ global.admin = Admin
    /\ \A c \in AnyCaller :
          Dispatch(Prog, initialize(Prog, c)).res = "AccountAlreadyInUse"

TradeIdsInUse == {trades[k].trade_id : k \in ExistingTrades}
PurchaseIdsInUse == {purchases[p].purchase_id : p \in ExistingPurchases}

\* C23 Id allocation: trade_counter is the number of trades and
\* purchase_counter the number of purchases, and the ids in use are exactly
\* 1..counter, each borne by one entity.
C23_IdAllocation ==
    /\ Cardinality(ExistingTrades) = global.trade_counter
    /\ TradeIdsInUse = 1..global.trade_counter
    /\ Cardinality(ExistingPurchases) = global.purchase_counter
    /\ PurchaseIdsInUse = 1..global.purchase_counter
    /\ \A p \in ExistingPurchases : purchases[p].purchase_id = p

\* two trades and two purchases exist, and a create_trade under a unit cost
\* already taken is turned down without issuing an id
C23_Witness ==
    /\ global.trade_counter = 2
    /\ global.purchase_counter = 2
    /\ \E k \in ExistingTrades :
          CreateCall(Admin, S1, k, <<<<P1>>, <<100>>>>, 2).res = "AccountAlreadyInUse"

\* buy requests against trade k issued at the current state: the purchase
\* account is derived from the counter the client read (purchase_counter + 1)
\* or from the counter after the other buy (purchase_counter + 2)
BuyRequests(k) ==
    {<<c, k, q, lp, global.purchase_counter + d>> :
        c \in BuyCallers, q \in BuyQuantities, lp \in {P1}, d \in {1, 2}}

BuyExceedsU64(t, lp, q) ==
    LET unit_cost == t.logistics_costs[FirstMatch(t.logistics_providers, lp)] IN
    \/ t.product_cost * q > U64Max
    \/ unit_cost * q > U64Max
    \/ t.product_cost * q + unit_cost * q > U64Max

\* the exact fee products of a payout of purchase p of trade t do not fit
PayoutExceedsU64(t, p) ==
    \/ t.product_cost * ESCROW_FEE_PERCENT * p.quantity > U64Max
    \/ p.logistics_cost * ESCROW_FEE_PERCENT > U64Max

\* whichever way the program was built, the run r fails with Overflow and
\* leaves the state as it was
OverflowFatal(r) == \A o \in Outcomes(Prog, r) : o.res = "Overflow" /\ o.st = Prog

\* C25 Overflow is a fatal error, never a wrap: a buy whose product total,
\* logistics total or their sum exceeds the u64 range, and a confirm_delivery
\* or resolve_dispute whose fee product exceeds it, fails with an Overflow
\* error and leaves the state untouched.
C25_OverflowFatal ==
    /\ \A k \in ExistingTrades, q \in OverflowQuantities :
          (/\ BuyTradeRequire(trades[k], B1, q, P1) = "Ok"
           /\ BuyExceedsU64(trades[k], P1, q))
          => OverflowFatal(BuyCall(B1, k, q, P1))
    /\ \A p \in ExistingPurchases :
          LET purchase_account == purchases[p]
              trade_account == trades[purchase_account.trade_id]
          IN PayoutExceedsU64(trade_account, purchase_account) =>
               /\ ConfirmRequire(purchase_account, B1) = "Ok"
                     => OverflowFatal(ConfirmCall(B1, p, S1, P1))
               /\ ResolveDisputeRequire(purchase_account, trade_account, S1) = "Ok"
                     => OverflowFatal(ResolveCall(Admin, p, S1, B1, S1, P1))

\* C26 Cap behaviour: the purchase id lists of a trade and of a buyer never
\* hold more than MAX_PURCHASE_IDS entries; a buy made with a list at the cap
\* succeeds, creates the purchase and takes the quantity from the stock, and
\* leaves that list as it was.
C26_CapBehaviour ==
    /\ [](/\ \A k \in ExistingTrades :
               /\ Len(trades[k].purchase_ids) <= MAX_PURCHASE_IDS
               /\ (/\ Len(trades[k].purchase_ids) = MAX_PURCHASE_IDS
                   /\ trades[k].remaining_quantity >= 1
                   /\ bal[B1] >= trades[k].product_cost + trades[k].logistics_costs[1])
                  => BuyCall(B1, k, 1, trades[k].logistics_providers[1]).res = "Ok"
          /\ \A b \in Identities : Len(buyers[b].purchase_ids) <= MAX_PURCHASE_IDS)
    /\ [][Committed /\ last'.op = "buy_trade" =>
            LET k == last'.arg[1]
                b == last'.caller
                id == last'.id
            IN /\ purchases[id] = NoPurchase
               /\ purchases'[id].purchase_id = id
               /\ trades'[k].remaining_quantity
                      = trades[k].remaining_quantity - last'.arg[2]
               /\ trades'[k].purchase_ids =
                      IF Len(trades[k].purchase_ids) = MAX_PURCHASE_IDS
                      THEN trades[k].purchase_ids
                      ELSE Append(trades[k].purchase_ids, id)
               /\ buyers'[b].purchase_ids =
                      IF Len(buyers[b].purchase_ids) = MAX_PURCHASE_IDS
                      THEN buyers[b].purchase_ids
                      ELSE Append(buyers[b].purchase_ids, id)]_vars

\* purchase 101 has just been made on a trade whose list was full: the
\* purchase exists, the trade's list still ends with id 100, and the list of
\* B1, who made 99 of the purchases before, took the new id
C26_Witness ==
    /\ last.op = "buy_trade"
    /\ last.id = MAX_PURCHASE_IDS + 1
    /\ purchases[last.id].purchase_id = last.id
    /\ Len(trades[CapProductCost].purchase_ids) = MAX_PURCHASE_IDS
    /\ trades[CapProductCost].purchase_ids[MAX_PURCHASE_IDS] = MAX_PURCHASE_IDS
    /\ Len(buyers[B1].purchase_ids) = MAX_PURCHASE_IDS
    /\ buyers[B1].purchase_ids[MAX_PURCHASE_IDS] = MAX_PURCHASE_IDS + 1

\* the purchase of 3 units is the only purchase and nothing else moved tokens
ScenarioBought ==
    /\ global.trade_counter = 1
    /\ global.purchase_counter = 1
    /\ purchases[1].quantity = 3
    /\ ~purchases[1].settled
    /\ bal[B1] = ScenarioBal[B1] - 3300
    /\ bal[Escrow] = 3300

\* C27 End-to-end dispute refund scenario: on a fresh system create_trade
\* (cost 1000, one provider at 100, quantity 10) and a buy of 3 give
\* remaining_quantity 7, active, and 3300 moved from the buyer to escrow;
\* raise_dispute and resolve_dispute with the buyer as winner then give
\* remaining_quantity 10, active, the purchase settled, both counters 1 and the
\* buyer's balance back at its initial value.
C27_DisputeRefundScenario ==
    /\ [][(/\ Committed /\ last'.op = "buy_trade"
           /\ global.purchase_counter = 0 /\ last'.arg[2] = 3) =>
            /\ trades'[ScenarioProductCost].remaining_quantity = 7
            /\ trades'[ScenarioProductCost].active
            /\ last'.xfers = << <<B1, Escrow, 3300>> >>
            /\ bal'[B1] = ScenarioBal[B1] - 3300
            /\ bal'[Escrow] = 3300]_vars
    /\ [][(/\ Committed /\ last'.op = "resolve_dispute"
           /\ ScenarioBought /\ purchases[1].disputed
           /\ last'.arg[1] = purchases[1].buyer) =>
            /\ trades'[ScenarioProductCost].remaining_quantity = 10
            /\ trades'[ScenarioProductCost].active
            /\ purchases'[1].settled
            /\ global'.trade_counter = 1
            /\ global'.purchase_counter = 1
            /\ bal'[B1] = ScenarioBal[B1]]_vars

RECURSIVE SumHeld(_)
SumHeld(ps) ==
    IF ps = {} THEN 0
    ELSE LET p == CHOOSE x \in ps : TRUE
         IN (IF purchases[p].settled THEN 0 ELSE purchases[p].total_amount)
                + SumHeld(ps \ {p})

PaidOut(p) == settlements[p] # <<>> /\ settlements[p][1] \in {"confirm", "payout"}

\* the fees the purchases of ps left behind when they were paid out
RECURSIVE SumFees(_)
SumFees(ps) ==
    IF ps = {} THEN 0
    ELSE LET p == CHOOSE x \in ps : TRUE
             fees == SpecProductFee(trades[purchases[p].trade_id].product_cost,
                                    purchases[p].quantity)
                        + SpecLogisticsFee(purchases[p].logistics_cost)
         IN (IF PaidOut(p) THEN fees ELSE 0) + SumFees(ps \ {p})

\* what the accounting says escrow holds, withdrawals aside
EscrowDue == SumHeld(ExistingPurchases) + SumFees(ExistingPurchases)

\* tokens the committed step took out of escrow by withdraw_escrow_fees
WithdrawnBy ==
    IF Committed /\ last'.op = "withdraw_escrow_fees" THEN last'.xfers[1][3] ELSE 0

\* C30 Escrow accounting identity: escrow balance plus everything withdrawn
\* equals the total_amount of the unsettled purchases plus the product and
\* logistics fees of the purchases paid out to seller and provider; refunded
\* purchases count for nothing. Stated step by step: it holds at the start
\* with nothing withdrawn, and every step keeps escrow plus what the step
\* withdrew equal to what is due.
C30_EscrowAccounting ==
    /\ bal[Escrow] = EscrowDue
    /\ [][bal'[Escrow] + WithdrawnBy - bal[Escrow] = EscrowDue' - EscrowDue]_vars

\* the tokens held by the accounts of as under balances b
RECURSIVE SumBal(_, _)
SumBal(b, as) ==
    IF as = {} THEN 0
    ELSE LET a == CHOOSE x \in as : TRUE IN b[a] + SumBal(b, as \ {a})

\* C31 Token conservation: the sum of all balances (buyers, seller, provider,
\* admin, escrow) is the same in every reachable state, and every step only
\* moves amounts between accounts.
C31_TokenConservation ==
    /\ [](SumBal(bal, TokenAccounts) = SumBal(InitBal, TokenAccounts))
    /\ [][SumBal(bal', TokenAccounts) = SumBal(bal, TokenAccounts)]_vars

\* a purchase has been paid out: seller, provider and escrow all hold tokens
\* that were the buyer's
C31_Witness ==
    /\ last.op = "confirm_delivery_and_purchase"
    /\ bal[S1] > 0
    /\ bal[P1] > InitBal[P1]
    /\ bal[Escrow] > 0
    /\ bal[B1] < InitBal[B1]

\* C32 Flag coupling: settled = delivered_and_confirmed for every purchase in
\* every reachable state; consequently no confirm_delivery and no cancel, by
\* any caller with any accounts, is ever rejected with AlreadySettled
\* (AlreadyConfirmed fires first).
C32_FlagCoupling ==
    /\ \A p \in ExistingPurchases :
           purchases[p].settled = purchases[p].delivered_and_confirmed
    /\ \A p \in PurchaseIds, c \in AnyCaller, a1, a2 \in AnyAccount :
           /\ ConfirmCall(c, p, a1, a2).res # "AlreadySettled"
           /\ CancelCall(c, p, a1).res # "AlreadySettled"

\* a purchase is settled, and its buyer's confirm and cancel are both rejected
\* with AlreadyConfirmed
C32_Witness ==
    \E p \in ExistingPurchases :
        /\ purchases[p].settled
        /\ purchases[p].delivered_and_confirmed
        /\ ConfirmCall(purchases[p].buyer, p, B1, S1).res = "AlreadyConfirmed"
        /\ CancelCall(purchases[p].buyer, p, B1).res = "AlreadyConfirmed"

\* ------------------------------------------------ trade-frame specification
\* Two trades under different unit costs, the purchases made against them and
\* the instructions that settle them (called by the
\* entitled party), dispute them or withdraw fees.
NextFrame ==
    \/ CreateTradeMulti
    \/ BuyTradeMulti
    \/ RaiseDispute
    \/ WithdrawEscrowFees
    \/ SettleByParty

SpecFrame == Init /\ [][NextFrame]_vars

\* the fields of a trade that are fixed at creation
TradeFixed(t) ==
    <<t.trade_id, t.seller, t.logistics_providers, t.logistics_costs,
      t.product_cost, t.total_quantity, t.token_mint>>

\* the fields of a trade that purchases move
TradeStock(t) == <<t.remaining_quantity, t.active>>

\* the committed step is a buy, a cancel or a buyer-won resolve_dispute on the
\* trade stored under k
StockStepOn(k) ==
    /\ Committed
    /\ \/ last'.op = "buy_trade" /\ last'.arg[1] = k
       \/ /\ last'.op = "cancel_purchase"
          /\ purchases[last'.id].trade_id = k
       \/ /\ last'.op = "resolve_dispute"
          /\ purchases[last'.id].trade_id = k
          /\ last'.arg[1] = purchases[last'.id].buyer

\* C33 Trade frame: once created a trade keeps its trade_id, seller, providers
\* and costs, unit product cost, total_quantity and settlement asset;
\* remaining_quantity and active change only in a successful buy, cancel or
\* buyer-won resolve_dispute on that same trade, and are unchanged by confirm,
\* raise_dispute, resolve_dispute with another winner, withdraw_escrow_fees
\* and every operation on another trade.
C33_TradeFrame ==
    [][\A k \in TradeKeys : trades[k] # NoTrade =>
          /\ trades'[k] # NoTrade
          /\ TradeFixed(trades'[k]) = TradeFixed(trades[k])
          /\ TradeStock(trades'[k]) # TradeStock(trades[k]) => StockStepOn(k)
          /\ ~StockStepOn(k) => TradeStock(trades'[k]) = TradeStock(trades[k])]_vars

\* two trades exist; one was bought from and restored by a cancel while the
\* other still has all its stock
C33_Witness ==
    /\ last.op = "cancel_purchase"
    /\ \E k1, k2 \in ExistingTrades :
        /\ k1 # k2
        /\ purchases[last.id].trade_id = k1
        /\ \E p \in ExistingPurchases :
              /\ purchases[p].trade_id = k2
              /\ ~purchases[p].settled
              /\ trades[k2].remaining_quantity < trades[k2].total_quantity

\* the committed step is a buy on the trade stored under k
BuyStepOn(k) == Committed /\ last'.op = "buy_trade" /\ last'.arg[1] = k

\* the committed step is a cancel or a buyer-won resolve_dispute on the trade
\* stored under k
RestoreStepOn(k) == StockStepOn(k) /\ last'.op # "buy_trade"

\* a buy of the trade under k that has a buyer with the funds, a listed
\* provider and a quantity in stock
BuyOffers(k) ==
    {x \in BuyCallers \X {1, 2} \X ProviderArgs :
        /\ x[1] # trades[k].seller
        /\ x[2] <= trades[k].remaining_quantity
        /\ FirstMatch(trades[k].logistics_providers, x[3]) # 0
        /\ bal[x[1]] >= x[2] * (trades[k].product_cost
              + trades[k].logistics_costs[FirstMatch(trades[k].logistics_providers, x[3])])}

\* C34 Direction of activation changes: a successful buy never turns active
\* from false to true and turns it false exactly when remaining_quantity
\* reaches 0; a successful cancel or buyer-won resolve_dispute never turns
\* active from true to false and turns a sold-out trade active again; while
\* the trade is sold out every buy of a positive quantity is rejected with
\* TradeInactive, and after the restore such a buy succeeds.
C34_ActivationDirection ==
    /\ [](\A k \in ExistingTrades : ~trades[k].active =>
            /\ trades[k].remaining_quantity = 0
            /\ \A c \in AnyCaller, q \in {1, 2}, lp \in ProviderArgs :
                  BuyCall(c, k, q, lp).res = "TradeInactive")
    /\ [][\A k \in ExistingTrades :
            /\ BuyStepOn(k) =>
                 /\ ~(~trades[k].active /\ trades'[k].active)
                 /\ (trades[k].active /\ ~trades'[k].active)
                        <=> trades'[k].remaining_quantity = 0
            /\ RestoreStepOn(k) =>
                 /\ ~(trades[k].active /\ ~trades'[k].active)
                 /\ trades'[k].active
                 /\ \A c \in AnyCaller, q \in {1, 2}, lp \in ProviderArgs :
                        (BuyCall(c, k, q, lp).res # "TradeInactive")'
                 /\ \A x \in BuyOffers(k)' :
                        (BuyCall(x[1], k, x[2], x[3]).res = "Ok")']_vars

\* a trade was sold out by purchase 1, purchase 1 was cancelled or refunded,
\* and a second buy of the same trade has just succeeded
C34_Witness ==
    /\ last.op = "buy_trade"
    /\ last.id = 2
    /\ Refunded(1)
    /\ purchases[1].quantity = trades[purchases[1].trade_id].total_quantity
    /\ purchases[2].trade_id = purchases[1].trade_id

\* the provider and cost lists of t have the same length, between 1 and
\* MAX_LOGISTICS_PROVIDERS
OptionsSized(t) ==
    /\ Len(t.logistics_providers) = Len(t.logistics_costs)
    /\ Len(t.logistics_providers) >= 1
    /\ Len(t.logistics_providers) <= MAX_LOGISTICS_PROVIDERS

\* no provider is listed twice in t
ProvidersUnique(t) ==
    \A i, j \in 1..Len(t.logistics_providers) :
        t.logistics_providers[i] = t.logistics_providers[j] => i = j

\* every listed provider of t is paired with exactly one cost
CostDetermined(t) ==
    \A i, j \in 1..Len(t.logistics_providers) :
        t.logistics_providers[i] = t.logistics_providers[j]
            => t.logistics_costs[i] = t.logistics_costs[j]

AllOptionsSized == \A k \in ExistingTrades : OptionsSized(trades[k])

\* C35 Logistics options well-formed: every created trade has provider and
\* cost lists of equal length between 1 and MAX_LOGISTICS_PROVIDERS, and no
\* provider is listed twice, so the cost a buy uses for a chosen provider is
\* determined uniquely.
C35_LogisticsWellFormed ==
    \A k \in ExistingTrades :
        /\ OptionsSized(trades[k])
        /\ ProvidersUnique(trades[k])
        /\ CostDetermined(trades[k])

\* every purchase names a stored trade
PurchaseNamesStoredTrade ==
    \A p \in ExistingPurchases : purchases[p].trade_id \in ExistingTrades

\* C36 Purchase back-reference: the trade_id of a purchase equals the
\* counter-assigned trade_id field of the trade its buy took the stock from;
\* a trade is stored and looked up under its counter-assigned trade_id; and a
\* second trade with the unit product cost of an existing one can be created.
C36_PurchaseBackReference ==
    /\ \A k \in ExistingTrades : trades[k].trade_id = k
    /\ \A p \in ExistingPurchases :
          /\ purchases[p].trade_id \in ExistingTrades
          /\ purchases[p].trade_id = trades[purchases[p].trade_id].trade_id
    /\ \A k \in ExistingTrades :
          CreateCall(global.admin, S1, trades[k].product_cost,
                     <<<<P1>>, <<100>>>>, 2).res = "Ok"

\* the state left by cancel_purchase(c, p, a) run right after the buy that
\* left r1, p being the purchase that buy created
CancelAfter(r1, c, a) ==
    Dispatch(r1.st, cancel_purchase(r1.st, c, r1.st.global.purchase_counter, a))

\* buy_trade(c, k, q, lp) succeeds in the current state and the cancel of the
\* new purchase by c with refund account a succeeds after it
RoundTripRuns(c, k, q, lp, a) ==
    /\ global.purchase_counter < MaxPurchases
    /\ BuyCall(c, k, q, lp).res = "Ok"
    /\ CancelAfter(BuyCall(c, k, q, lp), c, a).res = "Ok"

\* after the buy and the cancel everything is as before the buy except
\* purchase_counter, the new purchase (settled) and the purchase_ids lists
RoundTripRestores(c, k, q, lp, a) ==
    LET r1 == BuyCall(c, k, q, lp)
        p == r1.st.global.purchase_counter
        st == CancelAfter(r1, c, a).st
    IN /\ st.trades[k].remaining_quantity = trades[k].remaining_quantity
       /\ st.trades[k].active = trades[k].active
       /\ st.bal[c] = bal[c]
       /\ st.bal[Escrow] = bal[Escrow]
       /\ st.bal = bal
       /\ st.global = [global EXCEPT !.purchase_counter = p]
       /\ p = global.purchase_counter + 1
       /\ st.trades = [trades EXCEPT ![k].purchase_ids = st.trades[k].purchase_ids]
       /\ st.purchases = [purchases EXCEPT ![p] = st.purchases[p]]
       /\ st.purchases[p].settled
       /\ \A b \in Identities \ {c} : st.buyers[b] = buyers[b]
       /\ buyers[c].is_registered =>
             st.buyers = [buyers EXCEPT ![c].purchase_ids = st.buyers[c].purchase_ids]

\* the round trip with the refund sent to the buyer's own token account
RoundTripOwnAccount ==
    \A c \in BuyCallers, k \in TradeKeys, q \in Quantities, lp \in ProviderArgs :
        RoundTripRuns(c, k, q, lp, c) => RoundTripRestores(c, k, q, lp, c)

\* a buy that can be made and cancelled with the refund to the buyer's own
\* account, in a state where an earlier purchase already holds funds in escrow
RoundTripOwnAccountReached ==
    /\ bal[Escrow] > 0
    /\ \E c \in BuyCallers, k \in TradeKeys, q \in Quantities, lp \in ProviderArgs :
          RoundTripRuns(c, k, q, lp, c)

\* C37 Round trip buy then cancel: in every reachable state, for every buy
\* that succeeds, the cancel of the new purchase by its buyer right after it
\* restores the trade's remaining_quantity and active, the buyer's balance and
\* the escrow balance; only purchase_counter, the settled purchase record and
\* the purchase_ids lists differ, and no fee is charged.
C37_BuyCancelRoundTrip ==
    \A c \in BuyCallers, k \in TradeKeys, q \in Quantities, lp \in ProviderArgs,
       a \in AnyAccount :
        RoundTripRuns(c, k, q, lp, a) => RoundTripRestores(c, k, q, lp, a)

\* p was settled by confirm_delivery_and_purchase or by cancel_purchase
SettledWithoutDispute(p) ==
    settlements[p] # <<>> /\ settlements[p][1] \in {"confirm", "cancel"}

\* C38 disputed is monotone: no step resets disputed from true to false; after
\* a successful resolve_dispute, whoever wins, disputed,
\* delivered_and_confirmed and settled are all true; a purchase settled by
\* confirm_delivery or by cancel has disputed = false from then on.
C38_DisputedMonotone ==
    /\ [](\A p \in ExistingPurchases :
            SettledWithoutDispute(p) => ~purchases[p].disputed)
    /\ [][/\ \A p \in ExistingPurchases :
                purchases[p].disputed =>
                    purchases'[p] # NoPurchase /\ purchases'[p].disputed
          /\ (Committed /\ last'.op = "resolve_dispute") =>
                /\ purchases[last'.id].disputed
                /\ purchases'[last'.id].disputed
                /\ purchases'[last'.id].delivered_and_confirmed
                /\ purchases'[last'.id].settled]_vars

\* one purchase was disputed and has just been resolved, another was settled
\* by confirm or cancel and is not disputed
C38_Witness ==
    /\ last.op = "resolve_dispute"
    /\ purchases[last.id].disputed
    /\ purchases[last.id].settled
    /\ \E q \in ExistingPurchases :
          SettledWithoutDispute(q) /\ ~purchases[q].disputed

\* ---------------------------------------------- buyer-profile specification
\* The full-lists trade, bought one unit at a time until B1's list is full and
\* beyond, with register_buyer calls and cancellations of the first purchases
\* in between.
CancelProfile == \E p \in PurchaseIds : CancelByBuyer(p)

NextProfile ==
    \/ CreateTradeCap
    \/ BuyTradeCap
    \/ RegisterBuyer
    \/ CancelProfile

SpecProfile == InitCap /\ [][NextProfile]_vars

\* s is an initial segment of t
IsPrefix(s, t) == Len(s) <= Len(t) /\ s = SubSeq(t, 1, Len(s))

\* C39 Buyer profile maintenance: after every successful buy by b, b's profile
\* exists with is_registered = true and buyer = b; an absent profile is
\* created with an empty list first; the new purchase_id is appended unless
\* the list already holds MAX_PURCHASE_IDS entries; the ids recorded by
\* earlier buys are never removed or reordered by any later operation.
C39_BuyerProfile ==
    /\ [](\A b \in Identities : buyers[b].exists =>
             buyers[b].is_registered /\ buyers[b].buyer = b)
    /\ [][/\ \A b \in Identities :
                /\ buyers[b].exists => buyers'[b].exists
                /\ IsPrefix(buyers[b].purchase_ids, buyers'[b].purchase_ids)
          /\ (Committed /\ last'.op = "buy_trade") =>
                LET b == last'.caller
                    held == IF buyers[b].exists THEN buyers[b].purchase_ids
                            ELSE <<>>
                IN /\ buyers'[b].exists
                   /\ buyers'[b].is_registered
                   /\ buyers'[b].buyer = b
                   /\ buyers'[b].purchase_ids =
                         IF Len(held) = MAX_PURCHASE_IDS THEN held
                         ELSE Append(held, last'.id)]_vars

\* B1's list is full and still starts with purchase 1, which was cancelled;
\* B1 has just bought again and the new id is not in the list
C39_Witness ==
    /\ last.op = "buy_trade"
    /\ last.caller = B1
    /\ Len(buyers[B1].purchase_ids) = MAX_PURCHASE_IDS
    /\ buyers[B1].purchase_ids[1] = 1
    /\ buyers[B1].purchase_ids[MAX_PURCHASE_IDS] # last.id
    /\ Refunded(1)

====
